---- MODULE Spec2Model ----
(***************************************************************************)
(* philtographer: the graph store (internal/graph), the full-tree builder  *)
(* (scan.BuildGraph), the entry-driven builder (scan.BuildGraphFromEntries)*)
(* the component builder (tsgraph.BuildComponentGraphFromEntriesProgress)  *)
(* and the watch loop (cmd/watch.go), as state machines.                   *)
(***************************************************************************)
EXTENDS Integers, Sequences, FiniteSets, TLC

VARIABLES
    graph,      \* the *graph.Graph under construction: [edges, reverse]
    last,       \* the last call made on the graph store: [op, from, to, pre, out]
    touched,    \* every n a Touch(n) call has been made with
    disk,       \* the file tree: [files, dirs, unreadable, content]
    ctxDone,    \* the builder's context is cancelled
    walk,       \* BuildGraph: the paths the walker has still to send
    fileChannel,    \* BuildGraph: [buf, closed]
    resultChannel,  \* BuildGraph: [buf, closed]
    scanWorker,     \* BuildGraph: each worker's [pc, path]
    unresolved,     \* BuildGraph: the unresolved imports recorded, as {[File, Spec]}
    ret,            \* what the builder returned: [done, err]
    cmd,            \* the command around the builder: "running", "failed", "wrote"
    graphDoc,       \* the graph document on disk ("none" before any is written)
    mode,           \* entry builders: "entries" or "components"
    entries,        \* entry builders: the entry paths handed in
    mainPc,         \* entry builders: the calling goroutine: "seed", "send", "wait", "done"
    seedIdx,        \* entry builders: the entry the seeding loop is at
    queue,          \* entry builders: the work queue [buf, closed]
    visited,        \* entry builders: the visited set
    mu,             \* entry builders: the visited mutex (0 free, else the worker holding it)
    inflight,       \* entry builders: the inflight counter
    bw,             \* entry builders: each worker's [pc, path, specs, idents, to]
    crashed,        \* the process died of a runtime fatal error or panic
    reads,          \* entry builders: the paths os.ReadFile was called on
    hist,           \* entry builders: what the build has done so far: [sent, pulled, incs, decs, closes]
    wcfg,           \* watch: the configuration [mode, entries, affectedOnly]
    wMain,          \* watch: the command's goroutine: "init", "loop" or "exited"
    wEvents,        \* watch: the events fsnotify has queued on watcher.Events
    nEvents,        \* watch: the number of events queued so far
    pending,        \* watch: the pending set
    timer,          \* watch: the debounce timer is armed
    burst,          \* watch: the paths of the events handled since the timer last fired
    rb,             \* watch: the doRebuild calls made so far, the initial one first
    evDoc,          \* watch: the event document on disk
    wrote,          \* watch: the doRebuild call that wrote each document last
    sseClients,     \* ui: the registered SSE subscribers
    sseCh,          \* ui: the signals buffered in each subscriber's channel
    wsClients,      \* ui: the registered WebSocket connections
    wsConn,         \* ui: each connection's [open, room, failed]
    uiEvents,       \* ui: the events fsnotify has queued on watcher.Events
    nUiEvents,      \* ui: the number of events queued so far
    uiPc,           \* ui: the watcher goroutine: [at, c]
    uiTodo,         \* ui: the clients the running range loop has still to visit
    uiCur           \* ui: the notification under way: [ws, sse, wsSent, sseSig]

graphVars == <<graph, last, touched>>

scanVars == <<walk, fileChannel, resultChannel, scanWorker, unresolved>>

buildVars == <<mode, entries, mainPc, seedIdx, queue, visited, mu, inflight, bw,
               crashed, reads, hist>>

uiVars == <<sseClients, sseCh, wsClients, wsConn, uiEvents, nUiEvents, uiPc, uiTodo, uiCur>>

watchVars == <<wcfg, wMain, wEvents, nEvents, pending, timer, burst, rb, evDoc, wrote, uiVars>>

vars == <<graph, last, touched, disk, ctxDone, walk, fileChannel, resultChannel,
          scanWorker, unresolved, ret, cmd, graphDoc, mode, entries, mainPc, seedIdx,
          queue, visited, mu, inflight, bw, crashed, reads, hist, wcfg, wMain, wEvents,
          nEvents, pending, timer, burst, rb, evDoc, wrote, sseClients, sseCh, wsClients,
          wsConn, uiEvents, nUiEvents, uiPc, uiTodo, uiCur>>

(***************************************************************************)
(* Go maps as functions: a map's keys are its DOMAIN.                      *)
(***************************************************************************)
EmptyMap == [k \in {} |-> {}]

HasKey(m, k) == k \in DOMAIN m

\* m[k] = v
MapPut(m, k, v) == [x \in (DOMAIN m) \cup {k} |-> IF x = k THEN v ELSE m[x]]

(***************************************************************************)
(* The graph store.                                                        *)
(***************************************************************************)
\* graph.New()
New == [edges |-> EmptyMap, reverse |-> EmptyMap]

\* AddEdge that forgets the reverse index.
AddEdgeNoReverse(g, from, to) ==
    IF from = "" \/ to = "" \/ from = to
    THEN g
    ELSE [g EXCEPT !.edges =
            MapPut(g.edges, from,
                   (IF HasKey(g.edges, from) THEN g.edges[from] ELSE {}) \cup {to})]

\* AddEdge without the guard on empty endpoints and self-loops.
AddEdgeNoGuard(g, from, to) ==
    LET e1 == IF HasKey(g.edges, from) THEN g.edges ELSE MapPut(g.edges, from, {})
        e2 == MapPut(e1, from, e1[from] \cup {to})
        r1 == IF HasKey(g.reverse, to) THEN g.reverse ELSE MapPut(g.reverse, to, {})
        r2 == MapPut(r1, to, r1[to] \cup {from})
    IN  [edges |-> e2, reverse |-> r2]

\* func (g *Graph) AddEdge(from, to string)
AddEdge(g, from, to) ==
    IF from = "" \/ to = "" \/ from = to
    THEN g
    ELSE LET e1 == IF HasKey(g.edges, from) THEN g.edges ELSE MapPut(g.edges, from, {})
             e2 == MapPut(e1, from, e1[from] \cup {to})
             r1 == IF HasKey(g.reverse, to) THEN g.reverse ELSE MapPut(g.reverse, to, {})
             r2 == MapPut(r1, to, r1[to] \cup {from})
         IN  [edges |-> e2, reverse |-> r2]

\* Touch without the tests for an existing key: it resets the node's sets.
TouchNoGuard(g, n) ==
    IF n = ""
    THEN g
    ELSE [edges |-> MapPut(g.edges, n, {}), reverse |-> MapPut(g.reverse, n, {})]

\* func (g *Graph) Touch(n string)
Touch(g, n) ==
    IF n = ""
    THEN g
    ELSE [edges   |-> IF HasKey(g.edges, n) THEN g.edges ELSE MapPut(g.edges, n, {}),
          reverse |-> IF HasKey(g.reverse, n) THEN g.reverse ELSE MapPut(g.reverse, n, {})]

\* The node set of Nodes(): the keys of both maps.
NodeSet(g) == (DOMAIN g.edges) \cup (DOMAIN g.reverse)

\* The directed edges MarshalJSON and ForEachEdge range over.
EdgeSet(g) == {<<a, b>> \in (DOMAIN g.edges) \X NodeSet(g) : b \in g.edges[a]}

\* The dfs closure of Impacted: visit node, marking each unvisited predecessor.
RECURSIVE dfs(_, _, _)
RECURSIVE dfsPreds(_, _, _)
dfs(g, node, marked) ==
    IF ~HasKey(g.reverse, node)
    THEN marked
    ELSE dfsPreds(g, g.reverse[node], marked)

dfsPreds(g, preds, marked) ==
    IF preds = {}
    THEN marked
    ELSE LET predecessor == CHOOSE p \in preds : TRUE
             v1 == IF predecessor \in marked
                   THEN marked
                   ELSE dfs(g, predecessor, marked \cup {predecessor})
         IN  dfsPreds(g, preds \ {predecessor}, v1)

\* func (g *Graph) Impacted(start string) []string, as the set of its elements
Impacted(g, start) == dfs(g, start, {})

(***************************************************************************)
(* Paths, specifiers and the disk.                                         *)
(*                                                                         *)
(* A path is [dir, stem, ext]: the directory's segments from /, the base   *)
(* name without its extension, and the extension ("" for none), so that    *)
(* filepath.Dir, filepath.Ext, filepath.Join and candidate+extension are   *)
(* computed and not looked up. Str(p) is the path as the string the graph  *)
(* uses as node id. A specifier is [prefix, dir, stem, ext], prefix one of *)
(* "./", "../", "/" and "" (a bare specifier).                             *)
(***************************************************************************)
P(dir, stem, ext) == [dir |-> dir, stem |-> stem, ext |-> ext]

S(prefix, dir, stem, ext) == [prefix |-> prefix, dir |-> dir, stem |-> stem, ext |-> ext]

RECURSIVE SegStr(_)
SegStr(segs) == IF segs = <<>> THEN "" ELSE Head(segs) \o "/" \o SegStr(Tail(segs))

\* The path as a string: /seg/seg/stem.ext
Str(p) == "/" \o SegStr(p.dir) \o p.stem \o p.ext

\* The specifier as written in the import statement.
SpecStr(s) == s.prefix \o SegStr(s.dir) \o s.stem \o s.ext

\* filepath.Ext(p)
Ext(p) == p.ext

\* filepath.Dir(p), as segments
Dir(p) == p.dir

\* filepath.Base(p)
Base(p) == p.stem \o p.ext

\* filepath.Clean(filepath.Join(base, spec)): "../" climbs one directory, "./" and
\* "/" (Join drops the duplicate separator) stay in base.
JoinSpec(base, s) ==
    LET up == IF s.prefix = "../" /\ Len(base) > 0
              THEN SubSeq(base, 1, Len(base) - 1)
              ELSE base
    IN  P(up \o s.dir, s.stem, s.ext)

\* filepath.Join(candidate, "index"+extension)
JoinIndex(candidate, extension) ==
    P(candidate.dir \o <<Base(candidate)>>, "index", extension)

\* candidate + extension
AddExt(candidate, extension) == P(candidate.dir, candidate.stem, candidate.ext \o extension)

\* os.Stat(p): "file", "dir" or "none" (an error).
Stat(d, p) ==
    IF p \in d.files THEN "file"
    ELSE IF p \in d.dirs THEN "dir"
    ELSE "none"

\* info, err := os.Stat(p); err == nil && !info.IsDir()
IsRegular(d, p) == Stat(d, p) = "file"

\* os.ReadFile(p) succeeds
Readable(d, p) == p \in d.files /\ p \notin d.unreadable

\* The first path of tries that is a regular file, or NoPath.
NoPath == P(<<>>, "", "")

RECURSIVE FirstRegular(_, _)
FirstRegular(d, tries) ==
    IF tries = <<>> THEN NoPath
    ELSE IF IsRegular(d, Head(tries)) THEN Head(tries)
    ELSE FirstRegular(d, Tail(tries))

(***************************************************************************)
(* The regex import extractor and the legacy resolver (scan.go).           *)
(***************************************************************************)
\* func isSource(path string) bool
isSource(p) == Ext(p) \in {".ts", ".tsx"}

\* func isRelativeImport(spec string) bool
isRelativeImport(s) == s.prefix \in {"./", "../"}

\* The suffixes ParseImports drops.
ParseImportsDropped == {".css", ".scss", ".less", ".yml"}

\* func ParseImports(content string) []string: the specifiers of the file's
\* import, export-from, require and import() forms, without the style suffixes.
ParseImports(content) ==
    {st.spec : st \in {x \in content.imports : x.spec.ext \notin ParseImportsDropped}}

\* The extensions scan.Resolve tries, in order.
ResolveExtensions == <<".ts", ".tsx">>

\* What Resolve returns: to ("" with an error), the path behind to, and err.
Resolved(p) == [to |-> Str(p), path |-> p, err |-> FALSE]

ResolveError == [to |-> "", path |-> NoPath, err |-> TRUE]

\* func Resolve(fromFile, spec string) (string, error)
Resolve(d, fromFile, s) ==
    IF s.prefix \notin {"./", "../", "/"}
    THEN [to |-> "pkg:" \o SpecStr(s), path |-> NoPath, err |-> FALSE]
    ELSE LET candidate == JoinSpec(Dir(fromFile), s)
             index == FirstRegular(d, [i \in 1..Len(ResolveExtensions) |->
                                         JoinIndex(candidate, ResolveExtensions[i])])
             added == FirstRegular(d, [i \in 1..Len(ResolveExtensions) |->
                                         AddExt(candidate, ResolveExtensions[i])])
         IN  IF IsRegular(d, candidate) THEN Resolved(candidate)
             ELSE IF Stat(d, candidate) = "dir" /\ index # NoPath THEN Resolved(index)
             ELSE IF Ext(candidate) = "" /\ added # NoPath THEN Resolved(added)
             ELSE ResolveError

(***************************************************************************)
(* The tree-sitter extractor and the component resolver (parser.go).       *)
(***************************************************************************)
\* FileInfo.ImportMap as ParseTSFile fills it: the clause's identifier child (a
\* default import) and the specifiers of its named_imports child.
ImportMap(content) ==
    LET bound == {st \in content.imports : st.kind \in {"default", "named"}}
    IN  [b \in {st.bind : st \in bound} |-> (CHOOSE st \in bound : st.bind = b).spec]

\* A builder that follows every bound import, used as a JSX tag or not.
JSXIdentifiersAllBound(content) == DOMAIN ImportMap(content)

\* FileInfo.JSXIdentifiers, as the set of its elements
JSXIdentifiers(content) == content.jsx

\* func fileExists(p string) bool
fileExists(d, p) == Stat(d, p) # "none"

RECURSIVE FirstExisting(_, _)
FirstExisting(d, tries) ==
    IF tries = <<>> THEN NoPath
    ELSE IF fileExists(d, Head(tries)) THEN Head(tries)
    ELSE FirstExisting(d, Tail(tries))

\* exts in ResolveImportedComponent
ComponentExtensions == <<".tsx", ".ts">>

\* func ResolveImportedComponent(currentFile, importMap, ident) string; NoPath is "".
ResolveImportedComponent(d, currentFile, importMap, ident) ==
    IF ~HasKey(importMap, ident) THEN NoPath
    ELSE LET mod == importMap[ident]
             cand == JoinSpec(Dir(currentFile), mod)
             added == FirstExisting(d, [i \in 1..Len(ComponentExtensions) |->
                                          AddExt(cand, ComponentExtensions[i])])
             index == FirstExisting(d, [i \in 1..Len(ComponentExtensions) |->
                                          JoinIndex(cand, ComponentExtensions[i])])
         IN  IF mod.prefix \notin {"./", "../", "/"} THEN NoPath
             ELSE IF Ext(cand) = "" /\ added # NoPath THEN added
             ELSE IF Ext(cand) # "" /\ fileExists(d, cand) THEN cand
             ELSE index

(***************************************************************************)
(* The file trees the builders run on.                                     *)
(***************************************************************************)
\* The most import statements a file of a drawn tree holds.
MaxImports == 2

\* runtime.NumCPU()
Workers == 2

\* The capacity of the builders' channels (1024, 2048 and 4096 in the source),
\* scaled down.
ChanCap == 2

WorkerIds == 1..Workers

Root == <<"r">>

fa == P(Root, "a", ".ts")
fb == P(Root, "b", ".ts")
fc == P(Root, "c", ".ts")
\* A source file inside a pruned directory and the directory itself.
fm == P(<<"r", "node_modules">>, "m", ".ts")
dm == P(Root, "node_modules", "")
\* A file that is no source file of the full-tree build.
fu == P(Root, "u", ".js")

sa == S("./", <<>>, "a", "")
sb == S("./", <<>>, "b", "")
sc == S("./", <<>>, "c", "")
sreact == S("", <<>>, "react", "")

\* An import statement: kind is "side-effect" (import "m"), "default" (import X
\* from "m"), "named" (import {X} from "m") or "namespace" (import * as X from "m").
ImportOf(kind, bind, s) == [kind |-> kind, bind |-> bind, spec |-> s]

\* import "<spec>"
Import(s) == ImportOf("side-effect", "", s)

NoContent == [imports |-> {}, jsx |-> {}]

\* The contents a .ts file is drawn from: up to MaxImports imports.
TsContents ==
    {[imports |-> {Import(s) : s \in X}, jsx |-> {}] :
        X \in {Y \in SUBSET {sa, sb, sc, sreact} : Cardinality(Y) <= MaxImports}}

\* a.ts and b.ts exist; c.ts is absent, unreadable or present.
TsDisk(ca, cb, cc, cstate) ==
    [files      |-> {fa, fb, fm, fu} \cup (IF cstate = "absent" THEN {} ELSE {fc}),
     dirs       |-> {P(<<>>, "r", ""), dm},
     unreadable |-> IF cstate = "unreadable" THEN {fc} ELSE {},
     content    |-> [p \in {fa, fb, fc, fm, fu} |->
                        IF p = fa THEN ca ELSE IF p = fb THEN cb
                        ELSE IF p = fc THEN cc ELSE NoContent]]

TsDisks ==
    {TsDisk(ca, cb, cc, "ok") : ca \in TsContents, cb \in TsContents, cc \in TsContents}
    \cup {TsDisk(ca, cb, NoContent, st) :
            ca \in TsContents, cb \in TsContents, st \in {"absent", "unreadable"}}

\* The trees of the entry-driven build: a.ts imports up to MaxImports of ./b, ./c
\* and react, b.ts any of ./a and ./c, c.ts nothing or ./a.
EntryDisks ==
    LET CA == {[imports |-> {Import(s) : s \in X}, jsx |-> {}] :
                X \in {Y \in SUBSET {sb, sc, sreact} : Cardinality(Y) <= MaxImports}}
        CB == {[imports |-> {Import(s) : s \in X}, jsx |-> {}] : X \in SUBSET {sa, sc}}
        CC == {[imports |-> {Import(s) : s \in X}, jsx |-> {}] : X \in SUBSET {sa}}
    IN  {TsDisk(ca, cb, cc, "ok") : ca \in CA, cb \in CB, cc \in CC}
        \cup {TsDisk(ca, cb, NoContent, st) :
                ca \in CA, cb \in CB, st \in {"absent", "unreadable"}}

\* The .tsx files of the component trees.
xa == P(Root, "a", ".tsx")
xb == P(Root, "b", ".tsx")
xc == P(Root, "c", ".tsx")

iA == ImportOf("named", "A", sa)
iB == ImportOf("named", "B", sb)
iC == ImportOf("named", "C", sc)
iReact == ImportOf("default", "React", sreact)
\* import * as NS from './b' and import Default from './c'
iNS == ImportOf("namespace", "NS", sb)
iDefault == ImportOf("default", "Default", sc)
\* b.jsx
jb == P(Root, "b", ".jsx")

\* The contents of a.tsx, b.tsx and c.tsx: import statements and the JSX element
\* names used, which may or may not be bound by an import of the file.
TsxContentsA ==
    {[imports |-> X, jsx |-> J] :
        X \in {Y \in SUBSET {iB, iC} : Cardinality(Y) <= MaxImports},
        J \in SUBSET {"B", "C"}}
    \cup {[imports |-> {iNS, iDefault}, jsx |-> {"NS", "Default"}]}

TsxContentsB ==
    {[imports |-> {}, jsx |-> {}], [imports |-> {}, jsx |-> {"C"}],
     [imports |-> {iC}, jsx |-> {}], [imports |-> {iC}, jsx |-> {"C"}],
     [imports |-> {iReact}, jsx |-> {"React"}]}

TsxContentsC == {NoContent, [imports |-> {iA}, jsx |-> {"A"}]}

\* a.tsx and b.tsx exist; c.tsx is absent, unreadable or present.
TsxDisk(ca, cb, cc, cstate) ==
    [files      |-> {xa, xb} \cup (IF cstate = "absent" THEN {} ELSE {xc}),
     dirs       |-> {P(<<>>, "r", "")},
     unreadable |-> IF cstate = "unreadable" THEN {xc} ELSE {},
     content    |-> [p \in {xa, xb, xc, jb, fb} |->
                        IF p = xa THEN ca ELSE IF p = xb THEN cb
                        ELSE IF p = xc THEN cc ELSE NoContent]]

\* a.tsx and c.tsx exist; what './b' can name is the set bfiles: b.jsx alone,
\* or b.tsx beside b.ts.
TsxDiskB(ca, bfiles) ==
    [files      |-> {xa, xc} \cup bfiles,
     dirs       |-> {P(<<>>, "r", "")},
     unreadable |-> {},
     content    |-> [p \in {xa, xb, xc, jb, fb} |-> IF p = xa THEN ca ELSE NoContent]]

TsxDisks ==
    {TsxDisk(ca, cb, cc, "ok") :
        ca \in TsxContentsA, cb \in TsxContentsB, cc \in TsxContentsC}
    \cup {TsxDisk(ca, cb, NoContent, st) :
            ca \in TsxContentsA, cb \in TsxContentsB, st \in {"absent", "unreadable"}}
    \cup {TsxDiskB(ca, bfiles) : ca \in TsxContentsA, bfiles \in {{jb}, {xb, fb}}}

\* A name holding the byte 0xFF, which no UTF-8 text holds, and the same name
\* with U+FFFD (the bytes EF BF BD) in its place.
badName == "b<FF>"
replacedName == "b<U+FFFD>"

\* The node ids of the model in the byte order sort.Strings uses.
LexOrder ==
    <<"", Str(fa), Str(xa), Str(jb), Str(fb), Str(xb), Str(fc), Str(xc), Str(fm), Str(fu),
      "a", "b", replacedName, badName, "c", "pkg:react">>

Rank(n) == CHOOSE i \in 1..Len(LexOrder) : LexOrder[i] = n

\* sort.Strings over the elements of a set
RECURSIVE SortStrings(_)
SortStrings(set) ==
    IF set = {} THEN <<>>
    ELSE LET m == CHOOSE x \in set : \A y \in set : Rank(x) <= Rank(y)
         IN  <<m>> \o SortStrings(set \ {m})

\* Nodes() that collects the keys of the forward map only.
NodesForwardOnly(g) == SortStrings(DOMAIN g.edges)

\* func (g *Graph) Nodes() []string
Nodes(g) == SortStrings(NodeSet(g))

\* func (g *Graph) MarshalJSON(): {nodes, edges}; the edge order is the map's.
MarshalJSON(g) == [nodes |-> Nodes(g), edges |-> EdgeSet(g)]

NoDoc == [nodes |-> <<>>, edges |-> {<<"none", "none">>}]

\* No event document has been written.
NoEvents == [changed |-> <<>>, impacted |-> <<"none">>, null |-> TRUE]


(***************************************************************************)
(* Graph store calls: any sequence of AddEdge, Touch and Impacted.         *)
(***************************************************************************)
NodeIds == {"", "a", "b", "c"}

NoCall == [op |-> "none", from |-> "", to |-> "", pre |-> New, out |-> {}]

EmptyDisk == [files |-> {}, dirs |-> {}, unreadable |-> {}, content |-> EmptyMap]

OpenChannel == [buf |-> <<>>, closed |-> FALSE]

NotReturned == [done |-> FALSE, err |-> "nil"]

\* Nothing sent on the work queue, pulled from it, counted or closed yet.
NoHist == [sent |-> EmptyMap, pulled |-> EmptyMap, incs |-> 0, decs |-> 0, closes |-> 0]

\* The count kept for key k in m, one higher.
Bump(m, k) == IF HasKey(m, k) THEN [m EXCEPT ![k] = @ + 1] ELSE MapPut(m, k, 1)

\* No UI server is running.
UiIdle ==
    /\ sseClients = {}
    /\ sseCh = <<>>
    /\ wsClients = {}
    /\ wsConn = <<>>
    /\ uiEvents = <<>>
    /\ nUiEvents = 0
    /\ uiPc = [at |-> "exited", c |-> 0]
    /\ uiTodo = {}
    /\ uiCur = [ws |-> {}, sse |-> {}, wsSent |-> {}, sseSig |-> {}]

\* No full-tree build is running.
ScanIdle ==
    /\ walk = <<>>
    /\ fileChannel = OpenChannel
    /\ resultChannel = OpenChannel
    /\ scanWorker = [w \in WorkerIds |-> [pc |-> "done", path |-> NoPath]]
    /\ unresolved = {}

\* No entry-driven or component build is running.
BuildIdle ==
    /\ mode = "entries"
    /\ entries = <<>>
    /\ mainPc = "done"
    /\ seedIdx = 1
    /\ queue = OpenChannel
    /\ visited = {}
    /\ mu = 0
    /\ inflight = 0
    /\ bw = [w \in WorkerIds |-> [pc |-> "exit", path |-> NoPath, specs |-> {},
                                  idents |-> {}, to |-> NoPath]]
    /\ crashed = FALSE
    /\ reads = {}
    /\ hist = NoHist

\* No watch command is running.
WatchIdle ==
    /\ wcfg = [mode |-> "scan", entries |-> "none", affectedOnly |-> FALSE]
    /\ wMain = "exited"
    /\ wEvents = <<>>
    /\ nEvents = 0
    /\ pending = {}
    /\ timer = FALSE
    /\ burst = {}
    /\ rb = <<>>
    /\ evDoc = NoEvents
    /\ wrote = [graph |-> 0, events |-> 0]

GraphInit ==
    /\ graph = New
    /\ last = NoCall
    /\ touched = {}
    /\ disk = EmptyDisk
    /\ ctxDone = FALSE
    /\ ret = NotReturned
    /\ cmd = "running"
    /\ graphDoc = NoDoc
    /\ ScanIdle
    /\ BuildIdle
    /\ WatchIdle
    /\ UiIdle

CallAddEdge ==
    \E from \in NodeIds, to \in NodeIds :
        /\ graph' = AddEdge(graph, from, to)
        /\ last' = [op |-> "AddEdge", from |-> from, to |-> to, pre |-> graph, out |-> {}]
        /\ UNCHANGED <<watchVars, touched, disk, ctxDone, ret, cmd, graphDoc, scanVars, buildVars>>

CallTouch ==
    \E n \in NodeIds :
        /\ graph' = Touch(graph, n)
        /\ last' = [op |-> "Touch", from |-> n, to |-> "", pre |-> graph, out |-> {}]
        /\ touched' = touched \cup {n}
        /\ UNCHANGED <<watchVars, disk, ctxDone, ret, cmd, graphDoc, scanVars, buildVars>>

CallImpacted ==
    \E start \in NodeIds :
        /\ last' = [op |-> "Impacted", from |-> start, to |-> "", pre |-> graph,
                    out |-> Impacted(graph, start)]
        /\ UNCHANGED <<watchVars, graph, touched, disk, ctxDone, ret, cmd, graphDoc, scanVars, buildVars>>

GraphNext == CallAddEdge \/ CallTouch \/ CallImpacted

SpecGraph == GraphInit /\ [][GraphNext]_vars

(***************************************************************************)
(* Claims about the graph store.                                           *)
(***************************************************************************)
\* The nodes reachable from y along one or more forward edges.
RECURSIVE FwdReach(_, _, _)
FwdReach(g, frontier, seen) ==
    LET next == UNION {IF HasKey(g.edges, n) THEN g.edges[n] ELSE {} : n \in frontier}
        new  == next \ seen
    IN  IF new = {} THEN seen ELSE FwdReach(g, new, seen \cup new)

\* A directed path y -> ... -> x of at least one edge exists in the forward graph.
HasPath(g, y, x) == x \in FwdReach(g, {y}, {})

\* C3: mirror invariant. After any sequence of AddEdge and Touch calls, b is in
\* the forward set of a if and only if a is in the reverse set of b.
C3_Mirror ==
    \A a \in NodeIds, b \in NodeIds :
        (HasKey(graph.edges, a) /\ b \in graph.edges[a])
            <=> (HasKey(graph.reverse, b) /\ a \in graph.reverse[b])

\* An edge was just inserted next to an earlier one.
C3_Witness ==
    /\ last.op = "AddEdge"
    /\ last.pre # graph
    /\ Cardinality(EdgeSet(graph)) >= 2

\* C4: every node that is an endpoint of an edge or was touched is a key of both
\* the forward and the reverse mapping.
C4_KeysInBothMaps ==
    \A n \in NodeIds :
        (\/ n \in touched \ {""}
         \/ \E e \in EdgeSet(graph) : n = e[1] \/ n = e[2])
            => (HasKey(graph.edges, n) /\ HasKey(graph.reverse, n))

\* C5: Impacted(x) is exactly the set of nodes y # x with a directed path
\* y -> ... -> x in the forward graph (x is never in it, also on a cycle; it is
\* empty when x is no node of the graph).
C5_ImpactedExact ==
    last.op = "Impacted" =>
        last.out = {y \in NodeIds \ {last.from} : HasPath(last.pre, y, last.from)}

\* C6: AddEdge(x,x), AddEdge("",y) and AddEdge(x,"") leave the graph unchanged,
\* and no reachable graph holds a self-loop or an empty-string endpoint.
C6_NoSelfLoopNoEmpty ==
    /\ (last.op = "AddEdge" /\ (last.from = last.to \/ last.from = "" \/ last.to = ""))
            => graph = last.pre
    /\ "" \notin NodeSet(graph)
    /\ \A e \in EdgeSet(graph) : e[1] # e[2] /\ e[2] # ""
    /\ \A n \in DOMAIN graph.reverse : n \notin graph.reverse[n] /\ "" \notin graph.reverse[n]

\* AddEdge(x,x) was just called on a graph that already has edges.
C6_Witness ==
    /\ last.op = "AddEdge"
    /\ last.from = last.to
    /\ last.from # ""
    /\ EdgeSet(graph) # {}

(***************************************************************************)
(* The full-tree builder, scan.BuildGraph, under the scan command: a       *)
(* walker goroutine, Workers worker goroutines, the closer, and the        *)
(* consumer loop that owns the graph.                                      *)
(***************************************************************************)
\* The directory names the walker prunes ("." prefixed names as ".git").
PrunedNames == {"node_modules", "dist", "build", ".git"}

\* The walker reaches p: p lies under root and no directory from root down to it
\* (root included) is pruned.
Walked(root, p) ==
    /\ Len(p.dir) >= Len(root)
    /\ SubSeq(p.dir, 1, Len(root)) = root
    /\ \A i \in Len(root)..Len(p.dir) : i >= 1 => p.dir[i] \notin PrunedNames

\* The files of the model in the lexical order filepath.WalkDir visits them.
WalkOrder == <<fa, xa, fb, xb, fc, xc, fm, fu>>

\* The paths the walker sends: the source files it reaches, in walk order.
WalkList(d, root) ==
    LET Sent(p) == p \in d.files /\ Walked(root, p) /\ isSource(p)
    IN  SelectSeq(WalkOrder, Sent)

\* One import of one result in the consumer loop (scan.go:248-277).
ConsumeImport(d, st, file, spec) ==
    LET res == Resolve(d, file, spec)
        rec == [st EXCEPT !.unresolved = @ \cup {[File |-> Str(file), Spec |-> SpecStr(spec)]}]
    IN  IF res.err
        THEN (IF isRelativeImport(spec) THEN rec ELSE st)
        ELSE IF res.to = "" THEN st
        ELSE IF isRelativeImport(spec) /\ ~IsRegular(d, res.path) THEN rec
        ELSE [st EXCEPT !.g = AddEdge(st.g, Str(file), res.to)]

RECURSIVE ConsumeImports(_, _, _, _)
ConsumeImports(d, st, file, specs) ==
    IF specs = {} THEN st
    ELSE LET spec == CHOOSE x \in specs : TRUE
         IN  ConsumeImports(d, ConsumeImport(d, st, file, spec), file, specs \ {spec})

\* One result in the consumer loop (scan.go:241-277).
ConsumeOne(d, st, r) ==
    IF r.Err THEN st
    ELSE ConsumeImports(d, [st EXCEPT !.g = Touch(st.g, Str(r.File))], r.File, r.Imports)

ScanInit ==
    /\ disk \in TsDisks
    /\ graph = New
    /\ last = NoCall
    /\ touched = {}
    /\ ctxDone = FALSE
    /\ walk = WalkList(disk, Root)
    /\ fileChannel = OpenChannel
    /\ resultChannel = OpenChannel
    /\ scanWorker = [w \in WorkerIds |-> [pc |-> "recv", path |-> NoPath]]
    /\ unresolved = {}
    /\ ret = NotReturned
    /\ cmd = "running"
    /\ graphDoc = NoDoc
    /\ BuildIdle
    /\ WatchIdle
    /\ UiIdle

\* fileChannel <- path
WalkerSend ==
    /\ walk # <<>>
    /\ Len(fileChannel.buf) < ChanCap
    /\ fileChannel' = [fileChannel EXCEPT !.buf = Append(@, Head(walk))]
    /\ walk' = Tail(walk)
    /\ UNCHANGED <<watchVars, graphVars, disk, ctxDone, resultChannel, scanWorker, unresolved,
                   ret, cmd, graphDoc, buildVars>>

\* close(fileChannel)
WalkerClose ==
    /\ walk = <<>>
    /\ ~fileChannel.closed
    /\ fileChannel' = [fileChannel EXCEPT !.closed = TRUE]
    /\ UNCHANGED <<watchVars, graphVars, disk, ctxDone, walk, resultChannel, scanWorker, unresolved,
                   ret, cmd, graphDoc, buildVars>>

\* for path := range fileChannel
ScanWorkerRecv(w) ==
    /\ scanWorker[w].pc = "recv"
    /\ fileChannel.buf # <<>>
    /\ scanWorker' = [scanWorker EXCEPT ![w] = [pc |-> "send", path |-> Head(fileChannel.buf)]]
    /\ fileChannel' = [fileChannel EXCEPT !.buf = Tail(@)]
    /\ UNCHANGED <<watchVars, graphVars, disk, ctxDone, walk, resultChannel, unresolved,
                   ret, cmd, graphDoc, buildVars>>

\* the range loop ends: wg.Done()
ScanWorkerExit(w) ==
    /\ scanWorker[w].pc = "recv"
    /\ fileChannel.buf = <<>>
    /\ fileChannel.closed
    /\ scanWorker' = [scanWorker EXCEPT ![w] = [pc |-> "done", path |-> NoPath]]
    /\ UNCHANGED <<watchVars, graphVars, disk, ctxDone, walk, fileChannel, resultChannel, unresolved,
                   ret, cmd, graphDoc, buildVars>>

\* os.ReadFile, ParseImports, resultChannel <- Result{...}
ScanWorkerSend(w) ==
    LET path == scanWorker[w].path
        r == IF Readable(disk, path)
             THEN [File |-> path, Imports |-> ParseImports(disk.content[path]), Err |-> FALSE]
             ELSE [File |-> path, Imports |-> {}, Err |-> TRUE]
    IN  /\ scanWorker[w].pc = "send"
        /\ Len(resultChannel.buf) < ChanCap
        /\ resultChannel' = [resultChannel EXCEPT !.buf = Append(@, r)]
        /\ scanWorker' = [scanWorker EXCEPT ![w] = [pc |-> "recv", path |-> NoPath]]
        /\ UNCHANGED <<watchVars, graphVars, disk, ctxDone, walk, fileChannel, unresolved,
                       ret, cmd, graphDoc, buildVars>>

\* wg.Wait(); close(resultChannel)
Closer ==
    /\ \A w \in WorkerIds : scanWorker[w].pc = "done"
    /\ ~resultChannel.closed
    /\ resultChannel' = [resultChannel EXCEPT !.closed = TRUE]
    /\ UNCHANGED <<watchVars, graphVars, disk, ctxDone, walk, fileChannel, scanWorker, unresolved,
                   ret, cmd, graphDoc, buildVars>>

\* case r, ok := <-resultChannel, ok
ConsumeResult ==
    /\ ~ret.done
    /\ resultChannel.buf # <<>>
    /\ LET st == ConsumeOne(disk, [g |-> graph, unresolved |-> unresolved],
                            Head(resultChannel.buf))
       IN  /\ graph' = st.g
           /\ unresolved' = st.unresolved
    /\ resultChannel' = [resultChannel EXCEPT !.buf = Tail(@)]
    /\ UNCHANGED <<watchVars, last, touched, disk, ctxDone, walk, fileChannel, scanWorker,
                   ret, cmd, graphDoc, buildVars>>

\* case r, ok := <-resultChannel, !ok: return g, error or nil
ConsumeEnd ==
    /\ ~ret.done
    /\ resultChannel.buf = <<>>
    /\ resultChannel.closed
    /\ ret' = [done |-> TRUE, err |-> IF unresolved # {} THEN "unresolved" ELSE "nil"]
    /\ UNCHANGED <<watchVars, graphVars, disk, ctxDone, scanVars, cmd, graphDoc, buildVars>>

\* case <-ctx.Done(): return g, ctx.Err()
ConsumeCancelled ==
    /\ ~ret.done
    /\ ctxDone
    /\ ret' = [done |-> TRUE, err |-> "ctx"]
    /\ UNCHANGED <<watchVars, graphVars, disk, ctxDone, scanVars, cmd, graphDoc, buildVars>>

\* The command's context.WithTimeout expires.
CtxCancel ==
    /\ ~ctxDone
    /\ ~ret.done
    /\ ctxDone' = TRUE
    /\ UNCHANGED <<watchVars, graphVars, disk, scanVars, ret, cmd, graphDoc, buildVars>>

\* scanCmd after BuildGraph: return err, or encode the graph.
ScanCmdFinish ==
    /\ ret.done
    /\ cmd = "running"
    /\ IF ret.err # "nil"
       THEN cmd' = "failed" /\ UNCHANGED graphDoc
       ELSE cmd' = "wrote" /\ graphDoc' = MarshalJSON(graph)
    /\ UNCHANGED <<watchVars, graphVars, disk, ctxDone, scanVars, ret, buildVars>>

ScanNext ==
    \/ WalkerSend
    \/ WalkerClose
    \/ \E w \in WorkerIds : ScanWorkerRecv(w)
    \/ \E w \in WorkerIds : ScanWorkerExit(w)
    \/ \E w \in WorkerIds : ScanWorkerSend(w)
    \/ Closer
    \/ ConsumeResult
    \/ ConsumeEnd
    \/ ConsumeCancelled
    \/ CtxCancel
    \/ ScanCmdFinish

SpecScan == ScanInit /\ [][ScanNext]_vars

\* C7: when the full-tree build reaches end-of-stream having recorded unresolved
\* relative imports, BuildGraph returns the partial graph with no error, and the
\* scan command writes the graph document and succeeds.
C7_UnresolvedNotFatal ==
    /\ (ret.done /\ ret.err # "ctx" /\ unresolved # {}) => ret.err = "nil"
    /\ (cmd # "running" /\ ret.err # "ctx" /\ unresolved # {})
            => (cmd = "wrote" /\ graphDoc = MarshalJSON(graph))

(***************************************************************************)
(* The entry-driven builders: scan.BuildGraphFromEntries ("entries") and   *)
(* tsgraph.BuildComponentGraphFromEntriesProgress ("components").          *)
(*                                                                         *)
(* The caller seeds the queue and only then starts the workers. enqueue    *)
(* takes the visited mutex and keeps it across the channel send. The       *)
(* component builder mutates the graph under gmu, so a mutation is one     *)
(* step; the entry-driven builder calls g.Touch and g.AddEdge from every   *)
(* worker with no lock, so a mutation made while another worker stands     *)
(* before one of its own is a data race on the graph's maps: it may take   *)
(* effect, be lost, or end the process (fatal error: concurrent map        *)
(* writes).                                                                *)
(***************************************************************************)
\* The entry lists a build is started with.
EntryLists(m) ==
    LET a == IF m = "entries" THEN fa ELSE xa
        b == IF m = "entries" THEN fb ELSE xb
        c == IF m = "entries" THEN fc ELSE xc
    IN  {<<>>, <<a>>, <<a, a>>, <<a, b>>, <<a, b, c>>}

BuildDisks(m) == IF m = "entries" THEN EntryDisks ELSE TsxDisks

IdleWorker == [pc |-> "idle", path |-> NoPath, specs |-> {}, idents |-> {}, to |-> NoPath]

BuildInit ==
    /\ mode \in {"entries", "components"}
    /\ disk \in BuildDisks(mode)
    /\ entries \in EntryLists(mode)
    /\ mainPc = "seed"
    /\ seedIdx = 1
    /\ queue = OpenChannel
    /\ visited = {}
    /\ mu = 0
    /\ inflight = 0
    /\ bw = [w \in WorkerIds |-> IdleWorker]
    /\ crashed = FALSE
    /\ reads = {}
    /\ hist = NoHist
    /\ graph = New
    /\ last = NoCall
    /\ touched = {}
    /\ ctxDone = FALSE
    /\ ret = NotReturned
    /\ cmd = "running"
    /\ graphDoc = NoDoc
    /\ ScanIdle
    /\ WatchIdle
    /\ UiIdle

\* A loop over the imports that goes back to the queue with no decrement.
LoopPcNoDec(rest) == IF rest = {} THEN "recv" ELSE "loop"

\* The pc after one iteration of the worker's loop over the file's imports.
LoopPc(rest) == IF rest = {} THEN "dec" ELSE "loop"

\* The imports of worker w's file that make it call g.AddEdge on the maps.
EdgeSpecs(w) ==
    {sp \in bw[w].specs :
        LET r == Resolve(disk, bw[w].path, sp)
        IN  ~r.err /\ r.to # Str(bw[w].path)}

\* Worker w stands before an unlocked access to the graph's maps.
PoisedToWrite(w) ==
    /\ mode = "entries"
    /\ \/ bw[w].pc = "touch"
       \/ bw[w].pc = "loop" /\ EdgeSpecs(w) # {}

\* Worker w's graph mutation can overlap another worker's.
Racy(w) == \E w2 \in WorkerIds \ {w} : PoisedToWrite(w2)

\* The outcomes of worker w's graph mutation whose sequential result is g2.
GraphWrite(w, g2) ==
    IF Racy(w)
    THEN \/ graph' = g2 /\ crashed' = FALSE
         \/ graph' = graph /\ crashed' = FALSE
         \/ graph' = graph /\ crashed' = TRUE
    ELSE graph' = g2 /\ crashed' = FALSE

\* A seeding loop whose enqueue does not look the path up in visited.
SeedNoVisited ==
    /\ ~crashed
    /\ mainPc = "seed"
    /\ seedIdx <= Len(entries)
    /\ visited' = visited \cup {entries[seedIdx]}
    /\ inflight' = inflight + 1
    /\ hist' = [hist EXCEPT !.incs = @ + 1]
    /\ mainPc' = "send"
    /\ UNCHANGED seedIdx
    /\ UNCHANGED <<watchVars, graphVars, disk, ctxDone, scanVars, ret, cmd, graphDoc, mode, entries,
                   queue, mu, bw, crashed, reads>>

\* enqueue(start) by the seeding loop: mu.Lock(), the visited check, inflight+1
Seed ==
    /\ ~crashed
    /\ mainPc = "seed"
    /\ seedIdx <= Len(entries)
    /\ IF entries[seedIdx] \in visited
       THEN /\ seedIdx' = seedIdx + 1
            /\ UNCHANGED <<mainPc, visited, inflight, hist>>
       ELSE /\ visited' = visited \cup {entries[seedIdx]}
            /\ inflight' = inflight + 1
            /\ hist' = [hist EXCEPT !.incs = @ + 1]
            /\ mainPc' = "send"
            /\ UNCHANGED seedIdx
    /\ UNCHANGED <<watchVars, graphVars, disk, ctxDone, scanVars, ret, cmd, graphDoc, mode, entries,
                   queue, mu, bw, crashed, reads>>

\* enqueue(start) by the seeding loop: queue <- p, mu.Unlock()
SeedSend ==
    /\ ~crashed
    /\ mainPc = "send"
    /\ Len(queue.buf) < ChanCap
    /\ queue' = [queue EXCEPT !.buf = Append(@, entries[seedIdx])]
    /\ hist' = [hist EXCEPT !.sent = Bump(@, entries[seedIdx])]
    /\ seedIdx' = seedIdx + 1
    /\ mainPc' = "seed"
    /\ UNCHANGED <<watchVars, graphVars, disk, ctxDone, scanVars, ret, cmd, graphDoc, mode, entries,
                   visited, mu, inflight, bw, crashed, reads>>

\* wg.Add(workers); go func() ... for each worker
StartWorkers ==
    /\ ~crashed
    /\ mainPc = "seed"
    /\ seedIdx > Len(entries)
    /\ bw' = [w \in WorkerIds |-> [bw[w] EXCEPT !.pc = "recv"]]
    /\ mainPc' = "wait"
    /\ UNCHANGED <<watchVars, graphVars, disk, ctxDone, scanVars, ret, cmd, graphDoc, mode, entries,
                   seedIdx, queue, visited, mu, inflight, crashed, reads, hist>>

\* path, ok := <-queue with ok (for j := range jobs, and its ctx.Done check,
\* in the component builder); os.ReadFile(path) and the parse
BuildRecv(w) ==
    LET path == Head(queue.buf)
        drained == mode = "components" /\ ctxDone
        ok == Readable(disk, path)
    IN  /\ ~crashed
        /\ bw[w].pc = "recv"
        /\ queue.buf # <<>>
        /\ queue' = [queue EXCEPT !.buf = Tail(@)]
        /\ reads' = IF drained THEN reads ELSE reads \cup {path}
        /\ hist' = [hist EXCEPT !.pulled = Bump(@, path)]
        /\ bw' = [bw EXCEPT ![w] =
                    [pc     |-> IF drained THEN "decexit" ELSE IF ok THEN "touch" ELSE "dec",
                     path   |-> path,
                     specs  |-> IF ~drained /\ ok /\ mode = "entries"
                                THEN ParseImports(disk.content[path]) ELSE {},
                     idents |-> IF ~drained /\ ok /\ mode = "components"
                                THEN JSXIdentifiers(disk.content[path]) ELSE {},
                     to     |-> NoPath]]
        /\ UNCHANGED <<watchVars, graphVars, disk, ctxDone, scanVars, ret, cmd, graphDoc, mode, entries,
                       mainPc, seedIdx, visited, mu, inflight, crashed>>

\* the queue is closed and drained: the worker returns
BuildExitClosed(w) ==
    /\ ~crashed
    /\ bw[w].pc = "recv"
    /\ queue.buf = <<>>
    /\ queue.closed
    /\ bw' = [bw EXCEPT ![w].pc = "exit"]
    /\ UNCHANGED <<watchVars, graphVars, disk, ctxDone, scanVars, ret, cmd, graphDoc, mode, entries,
                   mainPc, seedIdx, queue, visited, mu, inflight, crashed, reads, hist>>

\* case <-ctx.Done(): return, in the entry-driven builder's select
BuildExitCtx(w) ==
    /\ ~crashed
    /\ mode = "entries"
    /\ bw[w].pc = "recv"
    /\ ctxDone
    /\ bw' = [bw EXCEPT ![w].pc = "exit"]
    /\ UNCHANGED <<watchVars, graphVars, disk, ctxDone, scanVars, ret, cmd, graphDoc, mode, entries,
                   mainPc, seedIdx, queue, visited, mu, inflight, crashed, reads, hist>>

\* g.Touch(path)
BuildTouch(w) ==
    /\ ~crashed
    /\ bw[w].pc = "touch"
    /\ GraphWrite(w, Touch(graph, Str(bw[w].path)))
    /\ bw' = [bw EXCEPT ![w].pc =
                LoopPc(IF mode = "entries" THEN bw[w].specs ELSE bw[w].idents)]
    /\ UNCHANGED <<watchVars, last, touched, disk, ctxDone, scanVars, ret, cmd, graphDoc, mode,
                   entries, mainPc, seedIdx, queue, visited, mu, inflight, reads, hist>>

\* A loop over the imports that enqueues whatever Resolve returned, with neither
\* the isRelativeImport nor the os.Stat test.
BuildImportEnqueueAll(w) ==
    /\ ~crashed
    /\ mode = "entries"
    /\ bw[w].pc = "loop"
    /\ \E spec \in bw[w].specs :
        LET r == Resolve(disk, bw[w].path, spec)
            rest == bw[w].specs \ {spec}
            from == Str(bw[w].path)
        IN  IF r.err
            THEN /\ bw' = [bw EXCEPT ![w].specs = rest, ![w].pc = LoopPc(rest)]
                 /\ UNCHANGED <<graph, crashed>>
            ELSE /\ IF r.to = from
                    THEN UNCHANGED <<graph, crashed>>
                    ELSE GraphWrite(w, AddEdge(graph, from, r.to))
                 /\ bw' = [bw EXCEPT ![w].specs = rest, ![w].pc = "enq", ![w].to = r.path]
    /\ UNCHANGED <<watchVars, last, touched, disk, ctxDone, scanVars, ret, cmd, graphDoc, mode,
                   entries, mainPc, seedIdx, queue, visited, mu, inflight, reads, hist>>

\* One iteration of the entry-driven builder's loop over ParseImports: Resolve,
\* g.AddEdge, and the isRelativeImport and os.Stat tests before enqueue(to).
BuildImport(w) ==
    /\ ~crashed
    /\ mode = "entries"
    /\ bw[w].pc = "loop"
    /\ \E spec \in bw[w].specs :
        LET r == Resolve(disk, bw[w].path, spec)
            rest == bw[w].specs \ {spec}
            from == Str(bw[w].path)
        IN  IF r.err
            THEN /\ bw' = [bw EXCEPT ![w].specs = rest, ![w].pc = LoopPc(rest)]
                 /\ UNCHANGED <<graph, crashed>>
            ELSE /\ IF r.to = from
                    THEN UNCHANGED <<graph, crashed>>
                    ELSE GraphWrite(w, AddEdge(graph, from, r.to))
                 /\ IF isRelativeImport(spec) /\ IsRegular(disk, r.path)
                    THEN bw' = [bw EXCEPT ![w].specs = rest, ![w].pc = "enq",
                                          ![w].to = r.path]
                    ELSE bw' = [bw EXCEPT ![w].specs = rest, ![w].pc = LoopPc(rest)]
    /\ UNCHANGED <<watchVars, last, touched, disk, ctxDone, scanVars, ret, cmd, graphDoc, mode,
                   entries, mainPc, seedIdx, queue, visited, mu, inflight, reads, hist>>

\* One iteration of the component builder's loop over fi.JSXIdentifiers:
\* ResolveImportedComponent, g.AddEdge under gmu, enqueue(to).
BuildIdent(w) ==
    /\ ~crashed
    /\ mode = "components"
    /\ bw[w].pc = "loop"
    /\ \E ident \in bw[w].idents :
        LET to == ResolveImportedComponent(disk, bw[w].path,
                                           ImportMap(disk.content[bw[w].path]), ident)
            rest == bw[w].idents \ {ident}
        IN  IF to = NoPath
            THEN /\ bw' = [bw EXCEPT ![w].idents = rest, ![w].pc = LoopPc(rest)]
                 /\ UNCHANGED graph
            ELSE /\ graph' = AddEdge(graph, Str(bw[w].path), Str(to))
                 /\ bw' = [bw EXCEPT ![w].idents = rest, ![w].pc = "enq", ![w].to = to]
    /\ UNCHANGED <<watchVars, last, touched, disk, ctxDone, scanVars, ret, cmd, graphDoc, mode,
                   entries, mainPc, seedIdx, queue, visited, mu, inflight, crashed, reads, hist>>

\* enqueue(to) by a worker: mu.Lock(), the visited check, inflight+1
BuildEnqueue(w) ==
    LET rest == IF mode = "entries" THEN bw[w].specs ELSE bw[w].idents
    IN  /\ ~crashed
        /\ bw[w].pc = "enq"
        /\ mu = 0
        /\ IF bw[w].to \in visited
           THEN /\ bw' = [bw EXCEPT ![w].pc = LoopPc(rest), ![w].to = NoPath]
                /\ UNCHANGED <<visited, inflight, mu, hist>>
           ELSE /\ visited' = visited \cup {bw[w].to}
                /\ inflight' = inflight + 1
                /\ hist' = [hist EXCEPT !.incs = @ + 1]
                /\ mu' = w
                /\ bw' = [bw EXCEPT ![w].pc = "send"]
        /\ UNCHANGED <<watchVars, graphVars, disk, ctxDone, scanVars, ret, cmd, graphDoc, mode,
                       entries, mainPc, seedIdx, queue, crashed, reads>>

\* enqueue(to) by a worker: queue <- p (a panic on a closed queue), mu.Unlock()
BuildEnqueueSend(w) ==
    LET rest == IF mode = "entries" THEN bw[w].specs ELSE bw[w].idents
    IN  /\ ~crashed
        /\ bw[w].pc = "send"
        /\ IF queue.closed
           THEN /\ crashed' = TRUE
                /\ UNCHANGED <<queue, mu, bw, hist>>
           ELSE /\ Len(queue.buf) < ChanCap
                /\ queue' = [queue EXCEPT !.buf = Append(@, bw[w].to)]
                /\ hist' = [hist EXCEPT !.sent = Bump(@, bw[w].to)]
                /\ mu' = 0
                /\ bw' = [bw EXCEPT ![w].pc = LoopPc(rest), ![w].to = NoPath]
                /\ UNCHANGED crashed
        /\ UNCHANGED <<watchVars, graphVars, disk, ctxDone, scanVars, ret, cmd, graphDoc, mode,
                       entries, mainPc, seedIdx, visited, inflight, reads>>

\* A worker that closes the queue after its decrement whatever the counter says.
BuildDecCloseAlways(w) ==
    /\ ~crashed
    /\ bw[w].pc \in {"dec", "decexit"}
    /\ inflight' = inflight - 1
    /\ IF queue.closed
       THEN crashed' = TRUE /\ UNCHANGED queue
       ELSE queue' = [queue EXCEPT !.closed = TRUE] /\ UNCHANGED crashed
    /\ hist' = [hist EXCEPT !.decs = @ + 1, !.closes = @ + 1]
    /\ bw' = [bw EXCEPT ![w] = [IdleWorker EXCEPT
                !.pc = IF bw[w].pc = "dec" THEN "recv" ELSE "exit"]]
    /\ UNCHANGED <<watchVars, graphVars, disk, ctxDone, scanVars, ret, cmd, graphDoc, mode,
                   entries, mainPc, seedIdx, visited, mu, reads>>

\* if inflight.Add(-1) == 0 { close(queue) } (a panic on a closed queue); the
\* component builder's cancelled worker returns after it.
BuildDec(w) ==
    /\ ~crashed
    /\ bw[w].pc \in {"dec", "decexit"}
    /\ inflight' = inflight - 1
    /\ IF inflight - 1 = 0
       THEN IF queue.closed
            THEN crashed' = TRUE /\ UNCHANGED queue
            ELSE queue' = [queue EXCEPT !.closed = TRUE] /\ UNCHANGED crashed
       ELSE UNCHANGED <<queue, crashed>>
    /\ hist' = [hist EXCEPT !.decs = @ + 1,
                            !.closes = IF inflight - 1 = 0 THEN @ + 1 ELSE @]
    /\ bw' = [bw EXCEPT ![w] = [IdleWorker EXCEPT
                !.pc = IF bw[w].pc = "dec" THEN "recv" ELSE "exit"]]
    /\ UNCHANGED <<watchVars, graphVars, disk, ctxDone, scanVars, ret, cmd, graphDoc, mode,
                   entries, mainPc, seedIdx, visited, mu, reads>>

\* wg.Wait(); return g, ctx.Err()
BuildReturn ==
    /\ ~crashed
    /\ mainPc = "wait"
    /\ \A w \in WorkerIds : bw[w].pc = "exit"
    /\ mainPc' = "done"
    /\ ret' = [done |-> TRUE, err |-> IF ctxDone THEN "ctx" ELSE "nil"]
    /\ UNCHANGED <<watchVars, graphVars, disk, ctxDone, scanVars, cmd, graphDoc, mode, entries,
                   seedIdx, queue, visited, mu, inflight, bw, crashed, reads, hist>>

\* The steps of the build itself.
BuildStep ==
    \/ Seed
    \/ SeedSend
    \/ StartWorkers
    \/ \E w \in WorkerIds : BuildRecv(w)
    \/ \E w \in WorkerIds : BuildExitClosed(w)
    \/ \E w \in WorkerIds : BuildExitCtx(w)
    \/ \E w \in WorkerIds : BuildTouch(w)
    \/ \E w \in WorkerIds : BuildImport(w)
    \/ \E w \in WorkerIds : BuildIdent(w)
    \/ \E w \in WorkerIds : BuildEnqueue(w)
    \/ \E w \in WorkerIds : BuildEnqueueSend(w)
    \/ \E w \in WorkerIds : BuildDec(w)
    \/ BuildReturn

\* The caller's context is cancelled while the build runs.
BuildCancel == ~crashed /\ CtxCancel

BuildNext ==
    \/ BuildStep
    \/ BuildCancel

SpecBuild == BuildInit /\ [][BuildNext]_vars

\* The component builder alone.
ComponentInit == BuildInit /\ mode = "components"

ComponentNext ==
    \/ Seed
    \/ SeedSend
    \/ StartWorkers
    \/ \E w \in WorkerIds : BuildRecv(w)
    \/ \E w \in WorkerIds : BuildExitClosed(w)
    \/ \E w \in WorkerIds : BuildTouch(w)
    \/ \E w \in WorkerIds : BuildIdent(w)
    \/ \E w \in WorkerIds : BuildEnqueue(w)
    \/ \E w \in WorkerIds : BuildEnqueueSend(w)
    \/ \E w \in WorkerIds : BuildDec(w)
    \/ BuildReturn
    \/ BuildCancel

SpecComponents == ComponentInit /\ [][ComponentNext]_vars

\* C1: a build started with a non-empty entry list whose context is not
\* cancelled returns: as long as it has not returned, some step of the build
\* can be taken (it is neither deadlocked nor dead).
C1_BuildReturns ==
    (entries # <<>> /\ ~ctxDone /\ ~ret.done /\ mainPc # "done") => ENABLED BuildStep

\* The files an entry-driven build is to reach: the readable entries, and the
\* regular files the relative imports of a reached readable file resolve to.
RECURSIVE EntryClosure(_, _)
EntryClosure(d, reached) ==
    LET more == {r.path : r \in {Resolve(d, f, sp) :
                    f \in {x \in reached : Readable(d, x)},
                    sp \in {y \in UNION {ParseImports(d.content[x]) :
                                x \in {z \in reached : Readable(d, z)}} :
                                isRelativeImport(y)}}}
        new == {q \in more : IsRegular(d, q)} \ reached
    IN  IF new = {} THEN reached ELSE EntryClosure(d, reached \cup new)

EntryReachable ==
    EntryClosure(disk, {entries[i] : i \in 1..Len(entries)})

\* C2: an entry-driven build that returns without cancellation holds every
\* reachable file as a node, an edge for every resolved import of every
\* reachable file, and has read no file outside the reachable closure.
C2_ReachableClosure ==
    (mode = "entries" /\ mainPc = "done" /\ ret.done /\ ret.err = "nil") =>
        /\ \A f \in EntryReachable :
            (Readable(disk, f) \/ f \notin {entries[i] : i \in 1..Len(entries)})
                => Str(f) \in NodeSet(graph)
        /\ \A f \in {x \in EntryReachable : Readable(disk, x)} :
            \A sp \in ParseImports(disk.content[f]) :
                ~Resolve(disk, f, sp).err
                    => <<Str(f), Resolve(disk, f, sp).to>> \in EdgeSet(graph)
        /\ reads \subseteq EntryReachable

\* File t is what the relative module specifier sp, written in file f, names.
NamesFile(d, f, sp, t) ==
    /\ sp.prefix \in {"./", "../", "/"}
    /\ t \in d.files
    /\ JoinSpec(Dir(f), sp) \in {t, P(t.dir, t.stem, "")}

\* File f uses, as a JSX tag head, a name that an import of f binds to the file t.
UsesComponent(d, f, t) ==
    \E st \in d.content[f].imports :
        /\ st.bind \in d.content[f].jsx
        /\ NamesFile(d, f, st.spec, t)

\* C10: a component build adds the edge f->t only if f uses, as a JSX tag
\* head, a name that f imports from the file t, and visits only the entries
\* and the files some file it read uses in that way.
C10_EdgesOnlyFromJSX ==
    mode = "components" =>
        /\ \A e \in EdgeSet(graph) :
            \E f \in disk.files, t \in disk.files :
                /\ e = <<Str(f), Str(t)>>
                /\ UsesComponent(disk, f, t)
        /\ \A t \in visited :
            \/ t \in {entries[i] : i \in 1..Len(entries)}
            \/ \E f \in reads : Readable(disk, f) /\ UsesComponent(disk, f, t)

\* A finished component build of a.tsx, which imports ./b and ./c and uses only
\* <B/>: the edge a->b is there and c.tsx was not visited.
C10_Witness ==
    /\ mode = "components"
    /\ mainPc = "done"
    /\ entries = <<xa>>
    /\ disk.content[xa] = [imports |-> {iB, iC}, jsx |-> {"B"}]
    /\ xc \in disk.files
    /\ <<Str(xa), Str(xb)>> \in EdgeSet(graph)
    /\ xc \notin visited

\* C11: a component build from a.tsx, which imports {B} from './b' and renders
\* <B/>, where b.jsx is the only file './b' can name, holds the edge
\* a.tsx -> b.jsx and both files as nodes when it returns.
C11_JsxResolution ==
    (/\ mode = "components"
     /\ mainPc = "done"
     /\ ret.done
     /\ ret.err = "nil"
     /\ entries = <<xa>>
     /\ iB \in disk.content[xa].imports
     /\ "B" \in disk.content[xa].jsx
     /\ jb \in disk.files
     /\ xb \notin disk.files
     /\ fb \notin disk.files)
        => /\ <<Str(xa), Str(jb)>> \in EdgeSet(graph)
           /\ {Str(xa), Str(jb)} \subseteq NodeSet(graph)

\* C12: a component build from a.tsx, which holds a namespace import NS of './b'
\* used as <NS.Widget/> and a default import Default of './c' used as
\* <Default/>, with b.tsx and c.tsx present, holds both edges when it returns.
C12_NamespaceAndDefault ==
    (/\ mode = "components"
     /\ mainPc = "done"
     /\ ret.done
     /\ ret.err = "nil"
     /\ entries = <<xa>>
     /\ disk.content[xa] = [imports |-> {iNS, iDefault}, jsx |-> {"NS", "Default"}]
     /\ {xb, xc} \subseteq disk.files)
        => /\ <<Str(xa), Str(xb)>> \in EdgeSet(graph)
           /\ <<Str(xa), Str(xc)>> \in EdgeSet(graph)

(***************************************************************************)
(* The import extractors and the resolvers as functions: the regex         *)
(* ParseImports and the legacy Resolve of scan.go, which the builders      *)
(* call, beside parseImportsAST (ts_ast.go) and resolveFile (tsconfig.go). *)
(* A tree is drawn, then the functions are applied to drawn inputs; last   *)
(* holds the call made and what it returned.                               *)
(***************************************************************************)
\* The suffixes parseImportsAST drops.
ASTDropped ==
    {".css", ".scss", ".less", ".yml", ".jpg", ".jpeg", ".png", ".gif", ".svg",
     ".mp3", ".mp4"}

\* strings.Contains(module, "*")
ContainsStar(s) == "*" \in ({s.stem} \cup {s.dir[i] : i \in 1..Len(s.dir)})

\* func parseImportsAST(path string, content []byte) []string
parseImportsAST(content) ==
    {st.spec : st \in {x \in content.imports :
                        ~ContainsStar(x.spec) /\ x.spec.ext \notin ASTDropped}}

\* extensions in resolveFile
resolveFileExtensions == <<".ts", ".tsx", ".js", ".jsx">>

\* func resolveFile(fromFile, spec string) (string, error)
resolveFile(d, fromFile, s) ==
    LET candidate == JoinSpec(Dir(fromFile), s)
        index == FirstRegular(d, [i \in 1..Len(resolveFileExtensions) |->
                                    JoinIndex(candidate, resolveFileExtensions[i])])
        added == FirstRegular(d, [i \in 1..Len(resolveFileExtensions) |->
                                    AddExt(candidate, resolveFileExtensions[i])])
    IN  IF IsRegular(d, candidate) THEN Resolved(candidate)
        ELSE IF Stat(d, candidate) = "dir" /\ index # NoPath THEN Resolved(index)
        ELSE IF Ext(candidate) = "" /\ added # NoPath THEN Resolved(added)
        ELSE ResolveError

\* The importing file, and the candidates './util' and './comp' name.
mainTsx == P(Root, "main", ".tsx")
utilBase == P(Root, "util", "")
compDir == P(Root, "comp", "")

sutil == S("./", <<>>, "util", "")
sutiljs == S("./", <<>>, "util", ".js")
scomp == S("./", <<>>, "comp", "")

\* The specifiers of the extractor inputs: a module, a stylesheet, a glob, two
\* images.
smodule == S("./", <<>>, "module", "")
scss == S("./", <<>>, "styles", ".css")
sglob == S("../", <<>>, "*", ".jpg")
spng == S("./", <<>>, "a", ".png")
ssvg == S("./", <<>>, "b", ".svg")

ResolveSpecs == {sutil, sutiljs, scomp, sreact}

\* The file contents the extractors are applied to.
ExtractContents ==
    {[imports |-> X, jsx |-> {}] :
        X \in {Y \in SUBSET ({ImportOf("default", "x", s) : s \in {smodule, sglob}}
                             \cup {Import(scss), ImportOf("named", "y", spng),
                                   ImportOf("namespace", "z", ssvg)}) :
                Cardinality(Y) <= MaxImports}}

\* main.tsx beside the files util+e for e in U and, when hasDir, the directory
\* comp with the files index+e for e in I.
ResolveDisk(U, I, hasDir) ==
    [files      |-> {mainTsx} \cup {AddExt(utilBase, e) : e \in U}
                              \cup {JoinIndex(compDir, e) : e \in I},
     dirs       |-> {P(<<>>, "r", "")} \cup (IF hasDir THEN {compDir} ELSE {}),
     unreadable |-> {},
     content    |-> [p \in {mainTsx} |-> NoContent]]

\* Any of util.ts, util.tsx, util.js and util.jsx, and either no comp at all or
\* the directory comp with any of its four index files.
ResolveDisks ==
    LET ext == {resolveFileExtensions[i] : i \in 1..Len(resolveFileExtensions)}
    IN  {ResolveDisk(t[1], t[2], t[3]) :
            t \in {x \in (SUBSET ext) \X (SUBSET ext) \X BOOLEAN : x[2] # {} => x[3]}}

ResolveInit ==
    /\ disk \in ResolveDisks
    /\ last = NoCall
    /\ graph = New
    /\ touched = {}
    /\ ctxDone = FALSE
    /\ ret = NotReturned
    /\ cmd = "running"
    /\ graphDoc = NoDoc
    /\ ScanIdle
    /\ BuildIdle
    /\ WatchIdle
    /\ UiIdle

\* imports := ParseImports(string(data))
CallParseImports ==
    \E content \in ExtractContents :
        /\ last' = [op |-> "ParseImports", content |-> content,
                    out |-> ParseImports(content)]
        /\ UNCHANGED <<graph, touched, disk, ctxDone, ret, cmd, graphDoc, scanVars,
                       buildVars, watchVars>>

\* parseImportsAST(path, data)
CallParseImportsAST ==
    \E content \in ExtractContents :
        /\ last' = [op |-> "parseImportsAST", content |-> content,
                    out |-> parseImportsAST(content)]
        /\ UNCHANGED <<graph, touched, disk, ctxDone, ret, cmd, graphDoc, scanVars,
                       buildVars, watchVars>>

\* to, err := Resolve(from, spec)
CallResolve ==
    \E s \in ResolveSpecs :
        /\ last' = [op |-> "Resolve", spec |-> s, res |-> Resolve(disk, mainTsx, s)]
        /\ UNCHANGED <<graph, touched, disk, ctxDone, ret, cmd, graphDoc, scanVars,
                       buildVars, watchVars>>

\* resolveFile(fromFile, spec), as Resolver.Resolve calls it for a relative spec
CallResolveFile ==
    \E s \in {x \in ResolveSpecs : x.prefix \in {"./", "../", "/"}} :
        /\ last' = [op |-> "resolveFile", spec |-> s, res |-> resolveFile(disk, mainTsx, s)]
        /\ UNCHANGED <<graph, touched, disk, ctxDone, ret, cmd, graphDoc, scanVars,
                       buildVars, watchVars>>

ResolveNext ==
    \/ CallParseImports
    \/ CallParseImportsAST
    \/ CallResolve
    \/ CallResolveFile

SpecResolve == ResolveInit /\ [][ResolveNext]_vars

\* The specifier is one the filter list names: a glob or a style or asset suffix.
Filtered(s) == ContainsStar(s) \/ s.ext \in ASTDropped

\* C13: neither import extractor returns a specifier that contains '*' or ends
\* in .css, .scss, .less, .yml, .jpg, .jpeg, .png, .gif, .svg, .mp3 or .mp4.
C13_AssetsAndGlobsDropped ==
    last.op \in {"ParseImports", "parseImportsAST"} =>
        \A s \in last.out : ~Filtered(s)

\* C14: scan.Resolve gives comp/index.jsx for './comp' when comp is a directory
\* holding only index.jsx, and util.js for './util' when util.js is the only
\* file './util' can name, both without an error.
C14_ResolveJsAndJsxAndIndex ==
    last.op = "Resolve" =>
        /\ (/\ last.spec = scomp
            /\ compDir \in disk.dirs
            /\ {JoinIndex(compDir, e) : e \in {".ts", ".tsx", ".js", ".jsx"}}
                    \cap disk.files = {JoinIndex(compDir, ".jsx")})
                => last.res = Resolved(JoinIndex(compDir, ".jsx"))
        /\ (/\ last.spec = sutil
            /\ {AddExt(utilBase, e) : e \in {".ts", ".tsx", ".js", ".jsx"}}
                    \cap disk.files = {AddExt(utilBase, ".js")})
                => last.res = Resolved(AddExt(utilBase, ".js"))

\* The probes of a relative specifier in the fixed order: the candidate itself,
\* the four index files of the candidate directory, the candidate with each of
\* the four extensions when it has none.
ProbeOrder(d, candidate) ==
    <<candidate>>
    \o (IF Stat(d, candidate) = "dir"
        THEN <<JoinIndex(candidate, ".ts"), JoinIndex(candidate, ".tsx"),
               JoinIndex(candidate, ".js"), JoinIndex(candidate, ".jsx")>>
        ELSE <<>>)
    \o (IF candidate.ext = ""
        THEN <<AddExt(candidate, ".ts"), AddExt(candidate, ".tsx"),
               AddExt(candidate, ".js"), AddExt(candidate, ".jsx")>>
        ELSE <<>>)

\* C15: relative resolution returns the first probe, in the fixed order, that is
\* a regular file, and an error when none is; with util.ts and util.js both
\* present './util' gives util.ts.
C15_FirstHitOrder ==
    (last.op \in {"Resolve", "resolveFile"} /\ last.spec.prefix \in {"./", "../"}) =>
        LET probes == ProbeOrder(disk, JoinSpec(Dir(mainTsx), last.spec))
            hits == {i \in 1..Len(probes) : IsRegular(disk, probes[i])}
        IN  /\ hits = {} => last.res.err
            /\ hits # {} =>
                last.res = Resolved(probes[CHOOSE i \in hits : \A j \in hits : i <= j])

\* The edges of the entry-driven import graph of the tree d from the entries es:
\* one per resolved import of every readable file the entries reach.
ImportEdges(d, es) ==
    LET reach == {f \in EntryClosure(d, {es[i] : i \in 1..Len(es)}) : Readable(d, f)}
    IN  UNION {{<<Str(f), Resolve(d, f, sp).to>> :
                    sp \in {x \in ParseImports(d.content[f]) : ~Resolve(d, f, x).err}} :
                f \in reach}

\* C16: for the same tree and the same entries, every edge of the component
\* graph a finished component build holds is an edge of the entry-driven import
\* graph.
C16_ComponentSubgraph ==
    (mode = "components" /\ mainPc = "done" /\ ret.done /\ ret.err = "nil") =>
        EdgeSet(graph) \subseteq ImportEdges(disk, entries)

(***************************************************************************)
(* The watch command (cmd/watch.go).                                       *)
(*                                                                         *)
(* The command makes the initial doRebuild, then loops over fsnotify       *)
(* events: a watched file goes into pending and re-arms the timer.         *)
(* time.AfterFunc runs flush in a goroutine of its own, so a flush runs    *)
(* beside the loop and beside earlier flushes. A builder run reads the     *)
(* tree as it is when the run is made; what it returns is computed by the  *)
(* operators below from the builders' code with the never-cancelled        *)
(* context.Background() the build closure passes.                          *)
(***************************************************************************)
\* The file events one watch run receives.
MaxEvents == 2

\* The sequences that list each element of set once (a range over a Go map).
Orders(set) ==
    {f \in [1..Cardinality(set) -> set] : \A i, j \in DOMAIN f : f[i] = f[j] => i = j}

\* The set of the elements of a sequence.
Range(seq) == {seq[i] : i \in DOMAIN seq}

\* func isWatchedFile(p string) bool
isWatchedFile(p) == Ext(p) \in {".ts", ".tsx", ".js", ".jsx"}

\* scan.BuildGraph(context.Background(), root): the consumer's loop over the
\* results of the walked files, and its return at end-of-stream.
RECURSIVE ConsumeAll(_, _, _)
ConsumeAll(d, st, paths) ==
    IF paths = <<>> THEN st
    ELSE LET path == Head(paths)
             r == IF Readable(d, path)
                  THEN [File |-> path, Imports |-> ParseImports(d.content[path]),
                        Err |-> FALSE]
                  ELSE [File |-> path, Imports |-> {}, Err |-> TRUE]
         IN  ConsumeAll(d, ConsumeOne(d, st, r), Tail(paths))

BuildGraph(d, root) ==
    LET st == ConsumeAll(d, [g |-> New, unresolved |-> {}], WalkList(d, root))
    IN  [g |-> st.g, err |-> IF st.unresolved # {} THEN "unresolved" ELSE "nil"]

\* tsgraph.BuildComponentGraphFromEntries(context.Background(), root, entryPaths):
\* the graph its workers leave, todo being the queue and seen the visited set.
RECURSIVE AddEdges(_, _, _)
AddEdges(g, from, targets) ==
    IF targets = {} THEN g
    ELSE LET to == CHOOSE t \in targets : TRUE
         IN  AddEdges(AddEdge(g, Str(from), Str(to)), from, targets \ {to})

RECURSIVE ComponentWalk(_, _, _, _)
ComponentWalk(d, g, todo, seen) ==
    IF todo = {} THEN g
    ELSE LET path == CHOOSE x \in todo : TRUE
             targets == IF Readable(d, path)
                        THEN {ResolveImportedComponent(d, path, ImportMap(d.content[path]),
                                                       ident) :
                                ident \in JSXIdentifiers(d.content[path])} \ {NoPath}
                        ELSE {}
             g1 == IF Readable(d, path)
                   THEN AddEdges(Touch(g, Str(path)), path, targets)
                   ELSE g
         IN  ComponentWalk(d, g1, (todo \ {path}) \cup (targets \ seen), seen \cup targets)

BuildComponentGraphFromEntries(d, entryPaths) ==
    ComponentWalk(d, New, Range(entryPaths), Range(entryPaths))

\* func impactedForChanges(root, g, changed) []string, for a g that is not nil
RECURSIVE AppendUnseen(_, _)
AppendUnseen(out, imps) ==
    IF imps = <<>> THEN out
    ELSE AppendUnseen(IF Head(imps) \in Range(out) THEN out ELSE Append(out, Head(imps)),
                      Tail(imps))

RECURSIVE impactedForChanges(_, _)
impactedForChanges(g, changed) ==
    IF changed = <<>> THEN <<>>
    ELSE LET front == impactedForChanges(g, SubSeq(changed, 1, Len(changed) - 1))
             c == changed[Len(changed)]
         IN  AppendUnseen(front, SortStrings(Impacted(g, Str(c))))

\* The entry paths the build closure collects in mode components: the explicit
\* provider's a.tsx, or the fallback to root/index.* and then to root itself.
IndexNames == <<".tsx", ".ts", ".jsx", ".js">>

EntryPaths(d, cfg) ==
    LET rp == P(<<>>, "r", "")
        cand == FirstRegular(d, [i \in 1..Len(IndexNames) |-> JoinIndex(rp, IndexNames[i])])
    IN  IF cfg.entries = "explicit" THEN <<xa>>
        ELSE IF Stat(d, rp) = "dir" /\ cand # NoPath THEN <<cand>>
        ELSE <<rp>>

\* What build(ctx, changed) returns: g (hasG says it is not nil), impacted (null
\* says it is nil) and err.
BuildResult(hasG, g, null, impacted, err) ==
    [hasG |-> hasG, g |-> g, null |-> null, impacted |-> impacted, err |-> err]

build(d, cfg, changed) ==
    IF cfg.mode = "components"
    THEN IF cfg.entries = "unknown"
         THEN BuildResult(FALSE, New, TRUE, <<>>, "provider")
         ELSE LET g == BuildComponentGraphFromEntries(d, EntryPaths(d, cfg))
              IN  BuildResult(TRUE, g, changed = <<>>, impactedForChanges(g, changed), "nil")
    ELSE LET r == BuildGraph(d, Root)
         IN  IF r.err # "nil"
             THEN BuildResult(TRUE, r.g, TRUE, <<>>, r.err)
             ELSE BuildResult(TRUE, r.g, changed = <<>>, impactedForChanges(r.g, changed),
                              "nil")

\* A doRebuild that hands the build error to its caller.
doRebuildReturnsBuildError(err) == err

\* What doRebuild returns: it logs the build error and returns nil.
doRebuildReturns(err) == "nil"

\* func filterSubgraph(g, keep): the documents it can give, the node order
\* being that of a range over the keep map.
filterSubgraph(g, keep) ==
    {[nodes |-> o, edges |-> {e \in EdgeSet(g) : e[1] \in keep /\ e[2] \in keep}] :
        o \in Orders(keep)}

\* The trees a watch run sees: a imports ./b; b imports nothing, ./c, or ./c
\* and ./a; c is there or not.
WatchDisks(m) ==
    IF m = "components"
    THEN {TsxDisk([imports |-> {iB}, jsx |-> {"B"}], cb, NoContent, st) :
            cb \in {NoContent, [imports |-> {iC}, jsx |-> {"C"}],
                    [imports |-> {iC, iA}, jsx |-> {"C", "A"}]},
            st \in {"ok", "absent"}}
    ELSE {TsDisk([imports |-> {Import(sb)}, jsx |-> {}], cb, NoContent, st) :
            cb \in {[imports |-> {Import(s) : s \in X}, jsx |-> {}] :
                        X \in {{}, {sc}, {sc, sa}}},
            st \in {"ok", "absent"}}

\* The files whose events the model delivers.
WatchedPaths(m) == IF m = "components" THEN {xa, xb, xc} ELSE {fa, fb, fc}

\* A stylesheet: its events are no watched file's.
fcss == P(Root, "s", ".css")

\* Tree d2 is tree d after a write, creation or removal of file p alone.
ChangedAt(d, d2, p) ==
    /\ p \in d.files \cup d2.files
    /\ d2.files \ {p} = d.files \ {p}
    /\ \A q \in (DOMAIN d.content) \ {p} : d2.content[q] = d.content[q]

\* One doRebuild call: its position, its changed argument and what build returned.
\* evt is the event document the call has written, burst the paths of the events
\* handled between the timer's last firing and the firing that started the call,
\* seq the rank of its flush among the swaps of the pending set (0: no swap).
Rebuild(pc, changed) ==
    [pc |-> pc, changed |-> changed, res |-> BuildResult(FALSE, New, TRUE, <<>>, "nil"),
     evt |-> NoEvents, burst |-> {}, seq |-> 0]

\* The doRebuild calls of one watch run: the initial one and one for each time
\* the timer fires.
RebuildIds == 1..(MaxEvents + 1)

WatchInit ==
    /\ wcfg \in [mode : {"scan", "components"}, entries : {"explicit", "unknown", "none"},
                 affectedOnly : BOOLEAN]
    /\ wcfg.mode = "scan" => wcfg.entries = "none"
    /\ disk \in WatchDisks(wcfg.mode)
    /\ wMain = "init"
    /\ wEvents = <<>>
    /\ nEvents = 0
    /\ pending = {}
    /\ timer = FALSE
    /\ burst = {}
    /\ rb = <<Rebuild("build", <<>>)>>
    /\ evDoc = NoEvents
    /\ wrote = [graph |-> 0, events |-> 0]
    /\ graphDoc = NoDoc
    /\ graph = New
    /\ last = NoCall
    /\ touched = {}
    /\ ctxDone = FALSE
    /\ ret = NotReturned
    /\ cmd = "running"
    /\ ScanIdle
    /\ BuildIdle
    /\ UiIdle

\* doRebuild: g, impacted, err := build(context.Background(), changed)
RebuildBuild(i) ==
    /\ i \in DOMAIN rb
    /\ rb[i].pc = "build"
    /\ rb' = [rb EXCEPT ![i].pc = "graph", ![i].res = build(disk, wcfg, rb[i].changed)]
    /\ UNCHANGED <<uiVars, graphVars, disk, ctxDone, scanVars, ret, cmd, graphDoc, buildVars,
                   wcfg, wMain, wEvents, nEvents, pending, timer, burst, evDoc, wrote>>

\* doRebuild: if g != nil, write the graph or, with affectedOnly and changes, the
\* subgraph over changed and impacted
RebuildWriteGraph(i) ==
    LET r == rb[i]
        affectedOnly == i > 1 /\ wcfg.affectedOnly
        keep == {Str(c) : c \in Range(r.changed)} \cup Range(r.res.impacted)
    IN  /\ i \in DOMAIN rb
        /\ r.pc = "graph"
        /\ IF r.res.hasG
           THEN /\ IF affectedOnly /\ Len(r.changed) > 0
                   THEN graphDoc' \in filterSubgraph(r.res.g, keep)
                   ELSE graphDoc' = MarshalJSON(r.res.g)
                /\ wrote' = [wrote EXCEPT !.graph = i]
           ELSE UNCHANGED <<graphDoc, wrote>>
        /\ rb' = [rb EXCEPT ![i].pc = "events"]
        /\ UNCHANGED <<uiVars, graphVars, disk, ctxDone, scanVars, ret, cmd, buildVars,
                       wcfg, wMain, wEvents, nEvents, pending, timer, burst, evDoc>>

\* doRebuild: write the event document {ts, changed, impacted}; return nil
RebuildWriteEvents(i) ==
    /\ i \in DOMAIN rb
    /\ rb[i].pc = "events"
    /\ evDoc' = [changed |-> rb[i].changed, impacted |-> rb[i].res.impacted,
                 null |-> rb[i].res.null]
    /\ wrote' = [wrote EXCEPT !.events = i]
    /\ rb' = [rb EXCEPT ![i].pc = "done", ![i].evt = evDoc']
    /\ UNCHANGED <<uiVars, graphVars, disk, ctxDone, scanVars, ret, cmd, graphDoc, buildVars,
                   wcfg, wMain, wEvents, nEvents, pending, timer, burst>>

\* if err := doRebuild(...); err != nil { return err }; the watcher is set up
WatchSetup ==
    /\ wMain = "init"
    /\ rb[1].pc = "done"
    /\ wMain' = IF doRebuildReturns(rb[1].res.err) # "nil" THEN "exited" ELSE "loop"
    /\ UNCHANGED <<uiVars, graphVars, disk, ctxDone, scanVars, ret, cmd, graphDoc, buildVars,
                   wcfg, wEvents, nEvents, pending, timer, burst, rb, evDoc, wrote>>

\* A file of the tree is written, created or removed; fsnotify queues the event.
FileChange ==
    /\ wMain = "loop"
    /\ nEvents < MaxEvents
    /\ nEvents' = nEvents + 1
    /\ \E p \in WatchedPaths(wcfg.mode), d2 \in WatchDisks(wcfg.mode) :
        /\ ChangedAt(disk, d2, p)
        /\ disk' = d2
        /\ wEvents' = Append(wEvents, [Name |-> p, Create |-> FALSE])
    /\ UNCHANGED <<uiVars, graphVars, ctxDone, scanVars, ret, cmd, graphDoc, buildVars,
                   wcfg, wMain, pending, timer, burst, rb, evDoc, wrote>>

\* An event for a file that is not watched, or the creation of a directory.
OtherEvent ==
    /\ wMain = "loop"
    /\ nEvents < MaxEvents
    /\ nEvents' = nEvents + 1
    /\ \E ev \in {[Name |-> fcss, Create |-> FALSE]}
                 \cup {[Name |-> dir, Create |-> TRUE] : dir \in disk.dirs} :
        wEvents' = Append(wEvents, ev)
    /\ UNCHANGED <<uiVars, graphVars, disk, ctxDone, scanVars, ret, cmd, graphDoc, buildVars,
                   wcfg, wMain, pending, timer, burst, rb, evDoc, wrote>>

\* case ev, ok := <-watcher.Events
HandleEvent ==
    /\ wMain = "loop"
    /\ wEvents # <<>>
    /\ wEvents' = Tail(wEvents)
    /\ LET ev == Head(wEvents)
       IN  IF ev.Create /\ Stat(disk, ev.Name) = "dir"
           THEN UNCHANGED <<pending, timer, burst>>
           ELSE IF isWatchedFile(ev.Name)
           THEN /\ pending' = pending \cup {ev.Name}
                /\ burst' = burst \cup {ev.Name}
                /\ timer' = TRUE
           ELSE UNCHANGED <<pending, timer, burst>>
    /\ UNCHANGED <<uiVars, graphVars, disk, ctxDone, scanVars, ret, cmd, graphDoc, buildVars,
                   wcfg, wMain, nEvents, rb, evDoc, wrote>>

\* The timer fires: flush starts in its own goroutine.
TimerFire ==
    /\ timer
    /\ timer' = FALSE
    /\ rb' = Append(rb, [Rebuild("swap", <<>>) EXCEPT !.burst = burst])
    /\ burst' = {}
    /\ UNCHANGED <<uiVars, graphVars, disk, ctxDone, scanVars, ret, cmd, graphDoc, buildVars,
                   wcfg, wMain, wEvents, nEvents, pending, evDoc, wrote>>

\* A flush that hands the pending paths to its rebuild and leaves them pending.
FlushSwapKeep(i) ==
    /\ i \in DOMAIN rb
    /\ rb[i].pc = "swap"
    /\ \E files \in Orders(pending) :
        rb' = [rb EXCEPT ![i].pc = "build", ![i].changed = files,
                         ![i].seq = 1 + Cardinality({j \in DOMAIN rb : rb[j].seq > 0})]
    /\ pending' = pending
    /\ UNCHANGED <<uiVars, graphVars, disk, ctxDone, scanVars, ret, cmd, graphDoc, buildVars,
                   wcfg, wMain, wEvents, nEvents, timer, burst, evDoc, wrote>>

\* flush: under mu, files := the pending paths; pending = map[string]struct{}{}
FlushSwap(i) ==
    /\ i \in DOMAIN rb
    /\ rb[i].pc = "swap"
    /\ \E files \in Orders(pending) :
        rb' = [rb EXCEPT ![i].pc = "build", ![i].changed = files,
                         ![i].seq = 1 + Cardinality({j \in DOMAIN rb : rb[j].seq > 0})]
    /\ pending' = {}
    /\ UNCHANGED <<uiVars, graphVars, disk, ctxDone, scanVars, ret, cmd, graphDoc, buildVars,
                   wcfg, wMain, wEvents, nEvents, timer, burst, evDoc, wrote>>

WatchNext ==
    \/ \E i \in RebuildIds : RebuildBuild(i)
    \/ \E i \in RebuildIds : RebuildWriteGraph(i)
    \/ \E i \in RebuildIds : RebuildWriteEvents(i)
    \/ WatchSetup
    \/ FileChange
    \/ OtherEvent
    \/ HandleEvent
    \/ TimerFire
    \/ \E i \in RebuildIds : FlushSwap(i)

SpecWatch == WatchInit /\ [][WatchNext]_vars

\* C8: the event document of a flush whose builder returned a graph lists, without
\* duplicates, exactly the union over the changed paths c of Impacted(c) on that
\* graph.
C8_ImpactedIsUnion ==
    \A i \in DOMAIN rb :
        (i > 1 /\ rb[i].pc = "done" /\ rb[i].res.hasG) =>
            /\ Range(rb[i].evt.impacted) =
                    UNION {Impacted(rb[i].res.g, Str(c)) : c \in Range(rb[i].changed)}
            /\ Cardinality(Range(rb[i].evt.impacted)) = Len(rb[i].evt.impacted)

\* The doRebuild call i has finished and its build returned an error or no graph.
RebuildFailed(i) ==
    /\ i \in DOMAIN rb
    /\ rb[i].pc = "done"
    /\ (rb[i].res.err # "nil" \/ ~rb[i].res.hasG)

\* C9: a failed build does not stop the watcher: the failed doRebuild call has
\* written the event document of its batch, and the command does not exit, it is
\* in its event loop once the initial build is through.
C9_WatcherSurvivesFailure ==
    \A i \in RebuildIds :
        RebuildFailed(i) =>
            /\ rb[i].evt = [changed |-> rb[i].changed, impacted |-> rb[i].res.impacted,
                            null |-> rb[i].res.null]
            /\ wMain # "exited"
            /\ i > 1 => wMain = "loop"

\* A flush whose build failed wrote its batch's event document, and a later batch
\* went through a rebuild of its own after it.
C9_Witness ==
    \E i, j \in RebuildIds :
        /\ 1 < i /\ i < j /\ j \in DOMAIN rb
        /\ RebuildFailed(i)
        /\ RebuildFailed(1)
        /\ rb[i].evt.changed # <<>>
        /\ rb[j].pc = "done"
        /\ rb[j].changed # <<>>
        /\ wMain = "loop"
(***************************************************************************)
(* Serialisation: a command builds a graph, encodes it once with           *)
(* enc.Encode(g), which calls Graph.MarshalJSON, and another command       *)
(* (isolated) decodes the document. The document is kept as the JSON       *)
(* value: the nodes array and the edges array of {From, To} objects, in    *)
(* the order the map iteration of MarshalJSON produced. encoding/json      *)
(* writes a Go string as a JSON string coerced to valid UTF-8: each        *)
(* invalid byte becomes U+FFFD. badName stands for a name holding the      *)
(* byte 0xFF, which no UTF-8 text holds.                                   *)
(***************************************************************************)
\* The most edges of a graph that is serialised.
MaxEdges == 3

\* utf8.ValidString(s)
ValidUTF8(s) == s # badName

\* The JSON string encoding/json writes for s, as the string a decoder reads back.
jsonString(s) == IF ValidUTF8(s) THEN s ELSE replacedName

SerialIds == {"a", "b", "c", badName}

\* The orders in which MarshalJSON's nested range over g.edges appends the
\* edges: any order of the from keys, the edges of one key side by side.
EdgeOrders(g) ==
    {f \in Orders(EdgeSet(g)) :
        \A i, j, k \in DOMAIN f :
            (i < j /\ j < k /\ f[i][1] = f[k][1]) => f[j][1] = f[i][1]}

\* json.Marshal(struct{Nodes []string `json:"nodes"`; Edges []edge `json:"edges"`})
\* with the edges appended in the order edgeOrder.
MarshalDoc(g, edgeOrder) ==
    [nodes |-> [i \in DOMAIN Nodes(g) |-> jsonString(Nodes(g)[i])],
     edges |-> [i \in DOMAIN edgeOrder |->
                    [From |-> jsonString(edgeOrder[i][1]),
                     To   |-> jsonString(edgeOrder[i][2])]]]

\* json.NewDecoder(f).Decode(&g) of the isolated command
Decode(doc) == [Nodes |-> doc.nodes, Edges |-> doc.edges]

SerialInit ==
    /\ graph = New
    /\ last = NoCall
    /\ graphDoc = NoDoc
    /\ touched = {}
    /\ disk = EmptyDisk
    /\ ctxDone = FALSE
    /\ ret = NotReturned
    /\ cmd = "running"
    /\ ScanIdle
    /\ BuildIdle
    /\ WatchIdle
    /\ UiIdle

\* g.AddEdge(from, to) while the graph is built
BuiltAddEdge ==
    /\ last.op = "none"
    /\ \E from \in SerialIds, to \in SerialIds :
        /\ Cardinality(EdgeSet(AddEdge(graph, from, to))) <= MaxEdges
        /\ graph' = AddEdge(graph, from, to)
    /\ UNCHANGED <<last, touched, disk, ctxDone, ret, cmd, graphDoc, scanVars, buildVars,
                   watchVars>>

\* g.Touch(n) while the graph is built
BuiltTouch ==
    /\ last.op = "none"
    /\ \E n \in SerialIds :
        /\ graph' = Touch(graph, n)
        /\ touched' = touched \cup {n}
    /\ UNCHANGED <<last, disk, ctxDone, ret, cmd, graphDoc, scanVars, buildVars, watchVars>>

\* enc.Encode(g)
EncodeGraph ==
    /\ last.op = "none"
    /\ \E edgeOrder \in EdgeOrders(graph) :
        graphDoc' = MarshalDoc(graph, edgeOrder)
    /\ last' = [op |-> "Encode", pre |-> graph]
    /\ UNCHANGED <<graph, touched, disk, ctxDone, ret, cmd, scanVars, buildVars, watchVars>>

\* The isolated command decodes the document.
DecodeGraph ==
    /\ last.op = "Encode"
    /\ last' = [op |-> "Decode", pre |-> last.pre, g |-> Decode(graphDoc)]
    /\ UNCHANGED <<graph, touched, disk, ctxDone, ret, cmd, graphDoc, scanVars, buildVars,
                   watchVars>>

SerialNext == BuiltAddEdge \/ BuiltTouch \/ EncodeGraph \/ DecodeGraph

SpecSerial == SerialInit /\ [][SerialNext]_vars

\* The decoded document of the graph pre has the node set and the edge set of
\* pre; the document's nodes list is sorted without duplicates and is the union
\* of the keys of both maps; every directed edge is in its edge list once.
RoundTrips(pre, doc, dec) ==
    /\ Range(dec.Nodes) = NodeSet(pre)
    /\ {<<e.From, e.To>> : e \in Range(dec.Edges)} = EdgeSet(pre)
    /\ \A i, j \in DOMAIN doc.nodes : i < j => Rank(doc.nodes[i]) < Rank(doc.nodes[j])
    /\ Range(doc.nodes) = (DOMAIN pre.edges) \cup (DOMAIN pre.reverse)
    /\ \A e \in EdgeSet(pre) :
        Cardinality({i \in DOMAIN doc.edges :
                        doc.edges[i] = [From |-> e[1], To |-> e[2]]}) = 1

\* C17 as stated: serialising any graph and parsing the document back yields
\* the same node set and edge set, a sorted duplicate-free nodes list and every
\* edge once.
C17_RoundTripAnyName ==
    last.op = "Decode" => RoundTrips(last.pre, graphDoc, last.g)

\* C17: serialising a graph whose node names are valid UTF-8 and parsing the
\* document back yields the same node set and the same edge set; the nodes list
\* is the sorted union of the keys of both maps without duplicates and every
\* directed edge is in the edge list exactly once.
C17_RoundTrip ==
    (last.op = "Decode" /\ \A n \in NodeSet(last.pre) : ValidUTF8(n))
        => RoundTrips(last.pre, graphDoc, last.g)

\* A decoded document of a graph with three edges, two of them from one node.
C17_Witness ==
    /\ last.op = "Decode"
    /\ EdgeSet(last.pre) = {<<"a", "b">>, <<"a", "c">>, <<"b", "a">>}
    /\ Len(last.g.Edges) = 3
    /\ \A n \in NodeSet(last.pre) : ValidUTF8(n)

(***************************************************************************)
(* The entry-driven build as one worker makes it: the reference run the    *)
(* concurrent builds are compared with.                                    *)
(***************************************************************************)
\* g.AddEdge(from, to) for every to of tos
RECURSIVE AddEdgesTo(_, _, _)
AddEdgesTo(g, from, tos) ==
    IF tos = {} THEN g
    ELSE LET to == CHOOSE t \in tos : TRUE
         IN  AddEdgesTo(AddEdge(g, from, to), from, tos \ {to})

\* scan.BuildGraphFromEntries with a single worker: todo is the queue, seen the
\* visited set.
RECURSIVE EntryWalk(_, _, _, _)
EntryWalk(d, g, todo, seen) ==
    IF todo = {} THEN g
    ELSE LET path == CHOOSE x \in todo : TRUE
             res == IF Readable(d, path)
                    THEN {[spec |-> sp, r |-> Resolve(d, path, sp)] :
                            sp \in ParseImports(d.content[path])}
                    ELSE {}
             ok == {x \in res : ~x.r.err}
             next == {x.r.path : x \in {y \in ok : isRelativeImport(y.spec)
                                                    /\ IsRegular(d, y.r.path)}}
             g1 == IF Readable(d, path)
                   THEN AddEdgesTo(Touch(g, Str(path)), Str(path), {x.r.to : x \in ok})
                   ELSE g
         IN  EntryWalk(d, g1, (todo \ {path}) \cup (next \ seen), seen \cup next)

BuildGraphFromEntries(d, es) == EntryWalk(d, New, Range(es), Range(es))

\* C18: for a fixed tree and entry list, a build that returns without
\* cancellation holds the same graph under every interleaving of its workers:
\* the graph the single-worker run of the same builder makes.
C18_SameGraphEveryInterleaving ==
    (mainPc = "done" /\ ret.done /\ ret.err = "nil") =>
        graph = IF mode = "entries"
                THEN BuildGraphFromEntries(disk, entries)
                ELSE BuildComponentGraphFromEntries(disk, entries)

\* C19: Touch(n) with a non-empty n is idempotent: after a Touch(n) call one more
\* Touch(n) leaves Nodes, the edges, every Impacted result and the serialisation
\* as they are, and the call made neither added nor removed an edge.
C19_TouchIdempotent ==
    (last.op = "Touch" /\ last.from # "") =>
        LET again == Touch(graph, last.from)
        IN  /\ graph = Touch(last.pre, last.from)
            /\ again = graph
            /\ Nodes(again) = Nodes(graph)
            /\ EdgeSet(again) = EdgeSet(graph)
            /\ \A start \in NodeIds : Impacted(again, start) = Impacted(graph, start)
            /\ MarshalJSON(again) = MarshalJSON(graph)
            /\ EdgeSet(graph) = EdgeSet(last.pre)
            /\ last.from \in NodeSet(graph)

\* A Touch of a node that was touched before and has edges both ways: the call
\* changed nothing.
C19_Witness ==
    /\ last.op = "Touch"
    /\ last.from = "b"
    /\ last.pre = graph
    /\ <<"a", "b">> \in EdgeSet(graph)
    /\ <<"b", "c">> \in EdgeSet(graph)

(***************************************************************************)
(* The UI server (unnamed/part_007).                                       *)
(*                                                                         *)
(* startFileWatcher runs one goroutine that takes fsnotify events; for an  *)
(* event named as the graph or the events file it makes a non-blocking     *)
(* send to every channel of sseClients under sseClientsMu, then calls      *)
(* wsBroadcast, which holds wsClientsMu while it writes a ping (with a     *)
(* two-second deadline) and the "update" text frame (with no deadline) to  *)
(* every connection of wsClients. serveWS registers a connection and       *)
(* starts its reader, which unregisters it when a read fails. The mux has  *)
(* no route to serveSSE, so sseClients stays empty.                        *)
(*                                                                         *)
(* A connection is [open, room, failed]: the peer has not closed it, the   *)
(* frames the transport still takes before a write has to wait for the     *)
(* peer to read, and a write on it has timed out (the library then fails   *)
(* every later write at once). A write with no room waits; the ping gives  *)
(* up at its deadline, WriteMessage has none.                              *)
(***************************************************************************)
\* The WebSocket clients that connect.
NumClients == 2

\* The frames a connection takes while its peer reads nothing.
WsRoom == 2

\* The file events delivered to the UI server's watcher.
MaxUiEvents == 2

\* ch := make(chan struct{}, 8)
SseCap == 8

WsIds == 1..NumClients

graphPath == "graph.json"
eventsPath == "graph-events.json"

\* A file in the watched directory that is neither document.
otherPath == "other.json"

NoConn == [open |-> FALSE, room |-> 0, failed |-> FALSE, made |-> FALSE]

NoNotification == [ws |-> {}, sse |-> {}, wsSent |-> {}, sseSig |-> {}]

\* wsClientsMu is held: wsBroadcast is between its Lock and its Unlock.
wsClientsMuHeld == uiPc.at \in {"ws", "update"}

UiInit ==
    /\ sseClients = {}
    /\ sseCh = <<>>
    /\ wsClients = {}
    /\ wsConn = [c \in WsIds |-> NoConn]
    /\ uiEvents = <<>>
    /\ nUiEvents = 0
    /\ uiPc = [at |-> "select", c |-> 0]
    /\ uiTodo = {}
    /\ uiCur = NoNotification
    /\ wcfg = [mode |-> "scan", entries |-> "none", affectedOnly |-> FALSE]
    /\ wMain = "exited"
    /\ wEvents = <<>>
    /\ nEvents = 0
    /\ pending = {}
    /\ timer = FALSE
    /\ burst = {}
    /\ rb = <<>>
    /\ evDoc = NoEvents
    /\ wrote = [graph |-> 0, events |-> 0]
    /\ graph = New
    /\ last = NoCall
    /\ touched = {}
    /\ disk = EmptyDisk
    /\ ctxDone = FALSE
    /\ ret = NotReturned
    /\ cmd = "running"
    /\ graphDoc = NoDoc
    /\ ScanIdle
    /\ BuildIdle

\* What no action of the UI server changes.
UiFrame ==
    UNCHANGED <<graphVars, disk, ctxDone, scanVars, ret, cmd, graphDoc, buildVars,
                wcfg, wMain, wEvents, nEvents, pending, timer, burst, rb, evDoc, wrote>>

\* func serveWS: Upgrade, then wsClients[conn] = struct{}{} under wsClientsMu
ServeWS(c) ==
    /\ uiPc.at # "exited"
    /\ ~wsConn[c].made
    /\ ~wsClientsMuHeld
    /\ wsConn' = [wsConn EXCEPT ![c] = [open |-> TRUE, room |-> WsRoom,
                                        failed |-> FALSE, made |-> TRUE]]
    /\ wsClients' = wsClients \cup {c}
    /\ UiFrame
    /\ UNCHANGED <<sseClients, sseCh, uiEvents, nUiEvents, uiPc, uiTodo, uiCur>>

\* The peer closes the connection or the network drops it.
WsPeerClose(c) ==
    /\ wsConn[c].open
    /\ wsConn' = [wsConn EXCEPT ![c].open = FALSE]
    /\ UiFrame
    /\ UNCHANGED <<sseClients, sseCh, wsClients, uiEvents, nUiEvents, uiPc, uiTodo, uiCur>>

\* The peer reads a frame: the connection takes one more.
WsPeerRead(c) ==
    /\ wsConn[c].open
    /\ wsConn[c].room < WsRoom
    /\ wsConn' = [wsConn EXCEPT ![c].room = @ + 1]
    /\ UiFrame
    /\ UNCHANGED <<sseClients, sseCh, wsClients, uiEvents, nUiEvents, uiPc, uiTodo, uiCur>>

\* The reader goroutine of serveWS: ReadMessage fails, the deferred function
\* deletes the connection under wsClientsMu and closes it.
WsReaderExit(c) ==
    /\ c \in wsClients
    /\ ~wsConn[c].open
    /\ ~wsClientsMuHeld
    /\ wsClients' = wsClients \ {c}
    /\ UiFrame
    /\ UNCHANGED <<sseClients, sseCh, wsConn, uiEvents, nUiEvents, uiPc, uiTodo, uiCur>>

\* fsnotify queues an event for a file of the watched directory.
UiFileEvent ==
    /\ uiPc.at # "exited"
    /\ nUiEvents < MaxUiEvents
    /\ \E name \in {graphPath, eventsPath, otherPath} :
        uiEvents' = Append(uiEvents, name)
    /\ nUiEvents' = nUiEvents + 1
    /\ UiFrame
    /\ UNCHANGED <<sseClients, sseCh, wsClients, wsConn, uiPc, uiTodo, uiCur>>

\* case ev, ok := <-watcher.Events, and the test of ev.Name
UiSelect ==
    /\ uiPc.at = "select"
    /\ uiEvents # <<>>
    /\ uiEvents' = Tail(uiEvents)
    /\ IF Head(uiEvents) \in {graphPath, eventsPath}
       THEN /\ uiPc' = [at |-> "sse", c |-> 0]
            /\ uiCur' = [ws |-> wsClients, sse |-> sseClients, wsSent |-> {},
                         sseSig |-> {}]
       ELSE UNCHANGED <<uiPc, uiCur>>
    /\ UiFrame
    /\ UNCHANGED <<sseClients, sseCh, wsClients, wsConn, nUiEvents, uiTodo>>

\* The range over sseClients under sseClientsMu, a select with a default for
\* each channel, then wsBroadcast's wsClientsMu.Lock().
UiSseBroadcast ==
    /\ uiPc.at = "sse"
    /\ sseCh' = [s \in DOMAIN sseCh |->
                    IF s \in sseClients /\ sseCh[s] < SseCap THEN sseCh[s] + 1
                    ELSE sseCh[s]]
    /\ uiCur' = [uiCur EXCEPT !.sseSig = sseClients]
    /\ uiTodo' = wsClients
    /\ uiPc' = [at |-> IF wsClients = {} THEN "select" ELSE "ws", c |-> 0]
    /\ UiFrame
    /\ UNCHANGED <<sseClients, wsClients, wsConn, uiEvents, nUiEvents>>

\* _ = c.WriteControl(websocket.PingMessage, []byte("1"), time.Now().Add(2*time.Second))
UiPing(c) ==
    /\ uiPc.at = "ws"
    /\ c \in uiTodo
    /\ wsConn' = IF ~wsConn[c].open \/ wsConn[c].failed THEN wsConn
                 ELSE IF wsConn[c].room > 0 THEN [wsConn EXCEPT ![c].room = @ - 1]
                 ELSE [wsConn EXCEPT ![c].failed = TRUE]
    /\ uiPc' = [at |-> "update", c |-> c]
    /\ UiFrame
    /\ UNCHANGED <<sseClients, sseCh, wsClients, uiEvents, nUiEvents, uiTodo, uiCur>>

\* _ = c.WriteMessage(websocket.TextMessage, []byte("update")), the end of the
\* loop's iteration and, after the last one, wsClientsMu.Unlock().
UiUpdate ==
    /\ uiPc.at = "update"
    /\ LET c == uiPc.c
           ok == wsConn[c].open /\ ~wsConn[c].failed
           rest == uiTodo \ {c}
       IN  /\ ok => wsConn[c].room > 0
           /\ wsConn' = IF ok THEN [wsConn EXCEPT ![c].room = @ - 1] ELSE wsConn
           /\ uiCur' = IF ok THEN [uiCur EXCEPT !.wsSent = @ \cup {c}] ELSE uiCur
           /\ uiTodo' = rest
           /\ uiPc' = [at |-> IF rest = {} THEN "select" ELSE "ws", c |-> 0]
    /\ UiFrame
    /\ UNCHANGED <<sseClients, sseCh, wsClients, uiEvents, nUiEvents>>

\* The steps of the watcher goroutine.
UiWatcherStep ==
    \/ UiSelect
    \/ UiSseBroadcast
    \/ \E c \in WsIds : UiPing(c)
    \/ UiUpdate

UiNext ==
    \/ \E c \in WsIds : ServeWS(c)
    \/ \E c \in WsIds : WsPeerClose(c)
    \/ \E c \in WsIds : WsPeerRead(c)
    \/ \E c \in WsIds : WsReaderExit(c)
    \/ UiFileEvent
    \/ UiWatcherStep

SpecUI == UiInit /\ [][UiNext]_vars

\* The goroutines of the server keep running: the watcher goroutine and the
\* readers take a step they can take. Nothing makes a peer read or close.
SpecUILive ==
    /\ SpecUI
    /\ WF_vars(UiWatcherStep)
    /\ WF_vars(\E c \in WsIds : WsReaderExit(c))

\* The watcher goroutine has taken an event for the graph or the events file and
\* has not finished notifying.
Notifying == uiPc.at \in {"sse", "ws", "update"}

\* C20: whenever the watcher takes a change event for the graph file or the
\* events file, every WebSocket client registered at that moment is in the end
\* sent the "update" frame, unless its own connection is gone or broken, and
\* every registered SSE subscriber is signalled: no client holds up the others.
C20_EveryClientNotified ==
    /\ \A c \in WsIds :
        (Notifying /\ c \in uiCur.ws)
            ~> \/ c \in uiCur.wsSent
               \/ c \notin wsClients
               \/ ~wsConn[c].open
               \/ wsConn[c].failed
    /\ Notifying ~> (uiPc.at # "sse" /\ uiCur.sse \subseteq uiCur.sseSig)

(***************************************************************************)
(* The work queue of the entry builders: its close, the inflight counter   *)
(* and the visited set.                                                    *)
(***************************************************************************)
\* Worker w has pulled a path and has not yet made the decrement for it.
Processing(w) == bw[w].pc \in {"touch", "loop", "enq", "send", "dec", "decexit"}

\* The enqueue calls that have counted their path and not yet sent it.
Sending == {w \in WorkerIds : bw[w].pc = "send"}

\* The sum of the counts kept in m.
RECURSIVE Total(_)
Total(m) ==
    IF DOMAIN m = {} THEN 0
    ELSE LET k == CHOOSE x \in DOMAIN m : TRUE
         IN  m[k] + Total([x \in DOMAIN m \ {k} |-> m[x]])

\* C21: the work queue is closed at most once per build, by the worker whose
\* decrement takes inflight from one to zero, in a state where no path is queued
\* or being processed, and nothing is sent on the queue once it is closed.
C21_ClosedOnceWhenDrained ==
    /\ [](hist.closes <= 1)
    /\ [](queue.closed =>
            /\ inflight = 0
            /\ queue.buf = <<>>
            /\ mainPc \in {"wait", "done"}
            /\ \A w \in WorkerIds : ~Processing(w))
    /\ [][(queue'.closed /\ ~queue.closed) =>
            /\ inflight = 1 /\ inflight' = 0
            /\ \E w \in WorkerIds :
                /\ bw[w].pc \in {"dec", "decexit"}
                /\ bw'[w].pc \in {"recv", "exit"}]_vars
    /\ [][queue.closed => hist'.sent = hist.sent]_vars

\* A build that took several paths from the queue has closed it.
C21_Witness ==
    /\ queue.closed
    /\ hist.closes = 1
    /\ Cardinality(DOMAIN hist.pulled) >= 2
    /\ \E w \in WorkerIds : bw[w].pc = "recv"

\* C22: inflight is the number of paths enqueued and not yet finished: those in
\* the queue, those a worker is processing and those an enqueue call is sending.
\* It has gone up once for every enqueue and down once for every path pulled and
\* finished, whatever happened to the path, and it is never negative.
C22_InflightCounts ==
    /\ inflight = Len(queue.buf) + Cardinality({w \in WorkerIds : Processing(w)})
                    + Cardinality(Sending) + (IF mainPc = "send" THEN 1 ELSE 0)
    /\ inflight >= 0
    /\ inflight = hist.incs - hist.decs
    /\ hist.incs = Total(hist.sent) + Cardinality(Sending)
                    + (IF mainPc = "send" THEN 1 ELSE 0)
    /\ hist.decs = Total(hist.pulled) - Cardinality({w \in WorkerIds : Processing(w)})

\* A worker stands before its decrement for a file it could not read, while
\* another path is still in flight.
C22_Witness ==
    /\ inflight >= 2
    /\ \E w \in WorkerIds : bw[w].pc = "dec" /\ ~Readable(disk, bw[w].path)

\* C23: no path is sent on the work queue twice and none is pulled twice, so no
\* two workers ever process the same path.
C23_EnqueuedOnce ==
    /\ \A p \in DOMAIN hist.sent : hist.sent[p] <= 1
    /\ \A p \in DOMAIN hist.pulled : hist.pulled[p] <= 1
    /\ \A w1, w2 \in WorkerIds :
        (w1 # w2 /\ Processing(w1) /\ Processing(w2)) => bw[w1].path # bw[w2].path

\* Two workers call enqueue with the same path at the same time.
C23_Witness ==
    \E w1, w2 \in WorkerIds :
        /\ w1 # w2
        /\ bw[w1].pc = "enq"
        /\ bw[w2].pc = "enq"
        /\ bw[w1].to = bw[w2].to

\* C24: no two AddEdge or Touch calls on the build's graph run at the same time:
\* no two workers of a build stand before a graph mutation that no lock and no
\* single owning goroutine orders.
C24_MutationsSerialized ==
    \A w1, w2 \in WorkerIds :
        (w1 # w2) => ~(PoisedToWrite(w1) /\ PoisedToWrite(w2))
\* C25: no enqueue call waits on a full queue: the seeding loop's send, made
\* before any worker runs, always finds room, and no worker holds the visited
\* mutex while its send has to wait.
C25_EnqueueNeverBlocks ==
    /\ mainPc = "send" => Len(queue.buf) < ChanCap
    /\ \A w \in WorkerIds :
        (bw[w].pc = "send" /\ mu = w /\ ~queue.closed) => Len(queue.buf) < ChanCap

(***************************************************************************)
(* Cancellation of an entry build. The goroutines are scheduled: the       *)
(* caller and every worker take a step they can take. Nothing makes the    *)
(* context be cancelled.                                                   *)
(***************************************************************************)
\* The steps of the calling goroutine.
MainStep ==
    \/ Seed
    \/ SeedSend
    \/ StartWorkers
    \/ BuildReturn

\* The steps of worker w.
WorkerStep(w) ==
    \/ BuildRecv(w)
    \/ BuildExitClosed(w)
    \/ BuildExitCtx(w)
    \/ BuildTouch(w)
    \/ BuildImport(w)
    \/ BuildIdent(w)
    \/ BuildEnqueue(w)
    \/ BuildEnqueueSend(w)
    \/ BuildDec(w)

SpecBuildLive ==
    /\ SpecBuild
    /\ WF_vars(MainStep)
    /\ \A w \in WorkerIds : WF_vars(WorkerStep(w))

\* C26: a build whose context is cancelled before it has returned does return,
\* with the context's error and with every worker gone, and when the workers
\* are gone one decrement has been made for every path pulled from the queue.
C26_CancelledBuildReturns ==
    /\ (ctxDone /\ ~ret.done)
        ~> (ret.done /\ ret.err = "ctx" /\ \A w \in WorkerIds : bw[w].pc = "exit")
    /\ []((\A w \in WorkerIds : bw[w].pc = "exit") => hist.decs = Total(hist.pulled))

\* C27: the events handled between two firings of the debounce timer are one
\* burst: the rebuild the firing starts has exactly the paths of that burst, each
\* once, as its changed set.
C27_OneRebuildPerBurst ==
    \A i \in DOMAIN rb :
        (i > 1 /\ rb[i].pc # "swap") =>
            /\ Range(rb[i].changed) = rb[i].burst
            /\ Len(rb[i].changed) = Cardinality(rb[i].burst)

\* C28: at most one rebuild, the builder's run and the writing of the two
\* documents, is in progress at any time.
C28_OneRebuildAtATime ==
    Cardinality({i \in DOMAIN rb : rb[i].pc \in {"build", "graph", "events"}}) <= 1

\* The graph document the doRebuild call i is to write from the graph g its build
\* returned: with affected-only and a changed set that is not empty, the subgraph
\* of g induced by the changed paths and the nodes impacted by them.
AffectedKeep(g, changed) ==
    {Str(c) : c \in Range(changed)} \cup UNION {Impacted(g, Str(c)) : c \in Range(changed)}

\* C29: the graph document a rebuild wrote is, with affected-only on and a
\* changed set that is not empty, the induced subgraph of the rebuilt graph over
\* changed and impacted: its nodes are exactly that union, each once, its edges
\* exactly the graph's edges between two of them. Otherwise it is the full graph.
C29_AffectedOnlySubgraph ==
    wrote.graph > 0 =>
        LET r == rb[wrote.graph]
            keep == AffectedKeep(r.res.g, r.changed)
        IN  IF wcfg.affectedOnly /\ r.changed # <<>>
            THEN /\ Range(graphDoc.nodes) = keep
                 /\ Len(graphDoc.nodes) = Cardinality(keep)
                 /\ graphDoc.edges = {e \in EdgeSet(r.res.g) : e[1] \in keep /\ e[2] \in keep}
            ELSE graphDoc = MarshalJSON(r.res.g)

\* C30: the nodes list of every graph document written is in ascending order
\* with no name twice.
C30_NodesSorted ==
    wrote.graph > 0 =>
        \A i, j \in DOMAIN graphDoc.nodes :
            i < j => Rank(graphDoc.nodes[i]) < Rank(graphDoc.nodes[j])

(***************************************************************************)
(* Externals in the entry-driven build.                                    *)
(***************************************************************************)
\* The names Resolve gives to the specifiers of tree d that are neither relative
\* nor absolute: "pkg:" and the specifier.
ExternalNames(d) ==
    {Resolve(d, f, sp).to :
        f \in d.files,
        sp \in {x \in UNION {ParseImports(d.content[g]) : g \in d.files} :
                    x.prefix \notin {"./", "../", "/"}}}

\* Path p is what a relative import of a file the build has read resolves to.
RelativeTarget(p) ==
    \E f \in reads :
        /\ Readable(disk, f)
        /\ \E sp \in ParseImports(disk.content[f]) :
            /\ isRelativeImport(sp)
            /\ ~Resolve(disk, f, sp).err
            /\ Resolve(disk, f, sp).path = p

\* C31: in an entry-driven build no external is enqueued or read and no pkg:
\* node has an edge going out of it; a path that is not an entry is enqueued
\* only if a relative import resolved to it and it is a regular file.
C31_ExternalsNotTraversed ==
    mode = "entries" =>
        /\ \A n \in ExternalNames(disk) :
            HasKey(graph.edges, n) => graph.edges[n] = {}
        /\ \A p \in visited \cup reads \cup DOMAIN hist.sent :
            Str(p) \notin ExternalNames(disk)
        /\ \A p \in visited \ Range(entries) :
            IsRegular(disk, p) /\ RelativeTarget(p)

\* A finished entry-driven build holds an edge to an external, and reached a
\* file through a relative import.
C31_Witness ==
    /\ mode = "entries"
    /\ mainPc = "done"
    /\ \E n \in ExternalNames(disk) :
        HasKey(graph.reverse, n) /\ graph.reverse[n] # {}
    /\ visited \ Range(entries) # {}

(***************************************************************************)
(* The component resolver beside the module resolver                       *)
(* (internal/tsgraph/parser.go, internal/scan/tsconfig.go).                *)
(***************************************************************************)
scomptsx == S("./", <<>>, "comp", ".tsx")
scompts == S("./", <<>>, "comp", ".ts")

\* main.tsx beside the files comp+e for e in F and a comp that is absent
\* ("none"), a regular file ("file") or a directory holding index+e for e in I.
ComponentDisk(F, kind, I) ==
    [files      |-> {mainTsx} \cup {AddExt(compDir, e) : e \in F}
                              \cup (IF kind = "file" THEN {compDir} ELSE {})
                              \cup {JoinIndex(compDir, e) : e \in I},
     dirs       |-> {P(<<>>, "r", "")} \cup (IF kind = "dir" THEN {compDir} ELSE {}),
     unreadable |-> {},
     content    |-> [p \in {mainTsx} |-> NoContent]]

ComponentDisks ==
    LET ext == {ComponentExtensions[i] : i \in 1..Len(ComponentExtensions)}
    IN  {ComponentDisk(t[1], t[2], t[3]) :
            t \in {x \in (SUBSET ext) \X {"none", "file", "dir"} \X (SUBSET ext) :
                    x[3] # {} => x[2] = "dir"}}

ComponentResolveInit ==
    /\ disk \in ComponentDisks
    /\ last = NoCall
    /\ graph = New
    /\ touched = {}
    /\ ctxDone = FALSE
    /\ ret = NotReturned
    /\ cmd = "running"
    /\ graphDoc = NoDoc
    /\ ScanIdle
    /\ BuildIdle
    /\ WatchIdle
    /\ UiIdle

\* to := ResolveImportedComponent(path, fi.ImportMap, ident), with the import
\* map binding the tag Comp to the specifier s
CallResolveImportedComponent ==
    \E s \in {scomp, scomptsx, scompts, sreact} :
        /\ last' = [op |-> "ResolveImportedComponent", spec |-> s,
                    res |-> ResolveImportedComponent(disk, mainTsx,
                                [k \in {"Comp"} |-> s], "Comp")]
        /\ UNCHANGED <<graph, touched, disk, ctxDone, ret, cmd, graphDoc, scanVars,
                       buildVars, watchVars>>

SpecComponentResolve == ComponentResolveInit /\ [][CallResolveImportedComponent]_vars

\* The probes of resolveFile for a relative specifier, in its order, with the
\* extension list of the component resolver: the candidate itself, the index
\* files of the candidate directory, the candidate with each extension when it
\* has none.
ComponentProbeOrder(d, candidate) ==
    <<candidate>>
    \o (IF Stat(d, candidate) = "dir"
        THEN [i \in 1..Len(ComponentExtensions) |->
                JoinIndex(candidate, ComponentExtensions[i])]
        ELSE <<>>)
    \o (IF candidate.ext = ""
        THEN [i \in 1..Len(ComponentExtensions) |->
                AddExt(candidate, ComponentExtensions[i])]
        ELSE <<>>)

\* C32: for a relative specifier the component resolver returns the first
\* probe that is a regular file in the order of the module resolver (the exact
\* file, then index.tsx and index.ts of the directory, then the candidate with
\* .tsx and .ts appended), and nothing when none is; with comp.tsx and
\* comp/index.tsx both present './comp' gives comp/index.tsx.
C32_SameFirstHitPolicy ==
    (last.op = "ResolveImportedComponent" /\ last.spec.prefix \in {"./", "../"}) =>
        LET probes == ComponentProbeOrder(disk, JoinSpec(Dir(mainTsx), last.spec))
            hits == {i \in 1..Len(probes) : IsRegular(disk, probes[i])}
        IN  /\ hits = {} => last.res = NoPath
            /\ hits # {} =>
                last.res = probes[CHOOSE i \in hits : \A j \in hits : i <= j]

\* C33: with an entry of an unknown provider type in the configuration the
\* watch command in mode components stops with an error: it writes no graph
\* document and no event document and never enters its event loop.
C33_UnknownProviderFatal ==
    (wcfg.mode = "components" /\ wcfg.entries = "unknown") =>
        /\ wrote = [graph |-> 0, events |-> 0]
        /\ wMain # "loop"

\* C34: a build called with an empty entry list returns, without an error and
\* with an empty graph, unless its context is cancelled.
C34_EmptyEntriesReturn ==
    entries = <<>> =>
        <>(ctxDone \/ (ret.done /\ ret.err = "nil" /\ graph = New))

(***************************************************************************)
(* The watcher's goroutines scheduled: the armed timer fires, a started    *)
(* flush and its doRebuild take their steps, the event loop handles the    *)
(* events that are queued.                                                 *)
(***************************************************************************)
\* The steps of the flush goroutine i, and of the initial doRebuild, around the
\* call of build.
RebuildStep(i) ==
    \/ FlushSwap(i)
    \/ RebuildWriteGraph(i)
    \/ RebuildWriteEvents(i)

\* doRebuild call i is at its call of build.
AtBuild(i) == i \in DOMAIN rb /\ rb[i].pc = "build"

\* RebuildBuild(i) is enabled exactly when AtBuild(i) holds and ends it, so weak
\* fairness of RebuildBuild(i) is []<>~AtBuild(i): a call of build returns.
SpecWatchLive ==
    /\ SpecWatch
    /\ WF_vars(TimerFire)
    /\ WF_vars(WatchSetup \/ HandleEvent)
    /\ \A i \in RebuildIds : WF_vars(RebuildStep(i))
    /\ \A i \in RebuildIds : []<>~AtBuild(i)

\* The step is the swap of flush i: its changed list is the pending set, each
\* path once, and the pending set is empty after it.
IsSwap(i) ==
    /\ i \in DOMAIN rb
    /\ rb[i].pc = "swap"
    /\ rb'[i].pc = "build"
    /\ Range(rb'[i].changed) = pending
    /\ Len(rb'[i].changed) = Cardinality(pending)
    /\ pending' = {}
    /\ \A j \in DOMAIN rb \ {i} : rb'[j].changed = rb[j].changed

\* The step keeps every pending path pending and alters no changed list; a
\* flush it starts has no changed list yet.
KeepsPending ==
    /\ pending \subseteq pending'
    /\ DOMAIN rb \subseteq DOMAIN rb'
    /\ \A j \in DOMAIN rb : rb'[j].changed = rb[j].changed
    /\ \A j \in DOMAIN rb' \ DOMAIN rb : rb'[j].changed = <<>>

C36_TimerRebuildHasChanges ==
    /\ \A i \in DOMAIN rb : (i > 1 /\ rb[i].pc # "swap") => rb[i].changed # <<>>
    /\ (wrote.events > 0 /\ evDoc.changed = <<>>) => wrote.events = 1

\* The doRebuild of the flush whose swap was the last one made.
LatestFlushed ==
    CHOOSE i \in DOMAIN rb : \A j \in DOMAIN rb : rb[j].seq <= rb[i].seq

\* C37: when no event is queued, no timer is armed and every doRebuild has
\* finished, the event document is the one the rebuild of the last flushed
\* batch wrote, and so is the graph document when that rebuild had a graph to
\* write.
C37_LatestRebuildWins ==
    (/\ wMain = "loop"
     /\ wEvents = <<>>
     /\ ~timer
     /\ \A i \in DOMAIN rb : rb[i].pc = "done"
     /\ \E i \in DOMAIN rb : rb[i].seq > 0) =>
        /\ wrote.events = LatestFlushed
        /\ rb[LatestFlushed].res.hasG => wrote.graph = LatestFlushed

(***************************************************************************)
(* The goroutines BuildGraph starts, scheduled: the walker, the workers    *)
(* and the closer take a step they can take. The caller is left as it is:  *)
(* once it has returned it takes no step on the channels.                  *)
(***************************************************************************)
\* The steps of the walker goroutine.
WalkerStep == WalkerSend \/ WalkerClose

\* The steps of worker w of BuildGraph.
ScanWorkerStep(w) == ScanWorkerRecv(w) \/ ScanWorkerExit(w) \/ ScanWorkerSend(w)

\* The trees of the cancelled scans: what the files hold does not matter to the
\* channels, how many there are does.
CancelDisks ==
    {TsDisk(ca, NoContent, NoContent, st) :
        ca \in {NoContent, [imports |-> {Import(sb)}, jsx |-> {}]},
        st \in {"ok", "absent", "unreadable"}}

ScanCancelInit == ScanInit /\ disk \in CancelDisks

SpecScanLive ==
    /\ ScanCancelInit
    /\ [][ScanNext]_vars
    /\ WF_vars(WalkerStep)
    /\ \A w \in WorkerIds : WF_vars(ScanWorkerStep(w))
    /\ WF_vars(Closer)

\* C38: after BuildGraph has returned the context's error the walker comes to
\* close the file channel and every worker comes to the end of its range loop.
C38_GoroutinesEndAfterCancel ==
    (ret.done /\ ret.err = "ctx") ~>
        (fileChannel.closed /\ \A w \in WorkerIds : scanWorker[w].pc = "done")

(***************************************************************************)
(* The tsconfig-aware resolver (internal/scan/tsconfig.go). A tsconfig     *)
(* file holds baseUrl and the paths map; a key or a target of the map is   *)
(* written [dir, stem, ext], stem "*" for "<dir>/*". A range over the map  *)
(* visits its keys in an order of its own for every loop.                  *)
(***************************************************************************)
tsconfigBase == P(Root, "tsconfig.base", ".json")
tsconfigJson == P(Root, "tsconfig", ".json")

\* "@app/*", "@app/ui/*" and "@app/ui/button"
patApp == P(<<"@app">>, "*", "")
patAppUi == P(<<"@app", "ui">>, "*", "")
patButton == P(<<"@app", "ui">>, "button", "")

Patterns == {patApp, patAppUi, patButton}

\* The paths map with the keys K: "@app/*": ["src/app/*"], "@app/ui/*":
\* ["ui/*"], "@app/ui/button": ["direct/button"].
PathsOf(K) ==
    [k \in K |-> IF k = patApp THEN <<P(<<"src", "app">>, "*", "")>>
                 ELSE IF k = patAppUi THEN <<P(<<"ui">>, "*", "")>>
                 ELSE <<P(<<"direct">>, "button", "")>>]

sbutton == S("", <<"@app", "ui">>, "button", "")

\* The files the targets name for '@app/ui/button', under the root and under
\* root/r.
AliasTargets ==
    {P(Root \o pre \o dir, "button", ".ts") :
        pre \in {<<>>, <<"r">>},
        dir \in {<<"src", "app", "ui">>, <<"ui">>, <<"direct">>}}

\* The directories above p.
Ancestors(p) == {P(SubSeq(p.dir, 1, i - 1), p.dir[i], "") : i \in 1..Len(p.dir)}

\* main.tsx, tsconfig.json with the keys K, and the target files F.
AliasDisk(F, K) ==
    [files      |-> {mainTsx, tsconfigJson} \cup F,
     dirs       |-> UNION {Ancestors(p) : p \in {mainTsx} \cup F},
     unreadable |-> {},
     content    |-> [p \in {mainTsx, tsconfigJson} |->
                        IF p = tsconfigJson
                        THEN [baseUrl |-> <<>>, paths |-> PathsOf(K)]
                        ELSE NoContent]]

AliasDisks == {AliasDisk(F, K) : F \in SUBSET AliasTargets, K \in SUBSET Patterns}

\* func resolveFromBaseDir(baseDir, spec string) string, and resolveFromBase
resolveFromBaseDir(d, baseDir, rel) ==
    LET cand == P(baseDir \o rel.dir, rel.stem, rel.ext)
        index == FirstRegular(d, [i \in 1..Len(resolveFileExtensions) |->
                                    JoinIndex(cand, resolveFileExtensions[i])])
        added == FirstRegular(d, [i \in 1..Len(resolveFileExtensions) |->
                                    AddExt(cand, resolveFileExtensions[i])])
    IN  IF IsRegular(d, cand) THEN cand
        ELSE IF Stat(d, cand) = "dir" /\ index # NoPath THEN index
        ELSE IF Ext(cand) = "" /\ added # NoPath THEN added
        ELSE NoPath

\* func relFromBase(base, abs string) string, for abs below base:
\* "./" + filepath.Rel(filepath.Dir(base), abs)
relFromBase(base, abs) == S("./", SubSeq(abs.dir, Len(base), Len(abs.dir)), abs.stem, abs.ext)

\* func (r *Resolver) probeAliasTarget(target string) string
probeAliasTarget(d, baseDir, target) ==
    LET cand == P(baseDir \o target.dir, target.stem, target.ext)
        res == resolveFile(d, P(baseDir, "index", ".ts"), relFromBase(baseDir, cand))
    IN  IF res.err THEN NoPath ELSE res.path

\* The probe of resolveAlias ("alias") and of resolveWithPaths ("base").
Probe(d, kind, baseDir, rel) ==
    IF kind = "alias" THEN probeAliasTarget(d, baseDir, rel)
    ELSE resolveFromBaseDir(d, baseDir, rel)

\* for _, g := range globs: the first target the probe finds
RECURSIVE FirstProbed(_, _, _, _)
FirstProbed(d, kind, baseDir, rels) ==
    IF rels = <<>> THEN NoPath
    ELSE IF Probe(d, kind, baseDir, Head(rels)) # NoPath
    THEN Probe(d, kind, baseDir, Head(rels))
    ELSE FirstProbed(d, kind, baseDir, Tail(rels))

\* strings.Contains(pat, "*") && strings.HasPrefix(spec, head)
PatternMatches(pat, s) ==
    /\ pat.stem = "*"
    /\ Len(pat.dir) <= Len(s.dir)
    /\ SubSeq(s.dir, 1, Len(pat.dir)) = pat.dir

\* strings.ReplaceAll(g, "*", tail), tail := strings.TrimPrefix(spec, head)
ReplaceStar(g, pat, s) ==
    IF g.stem = "*"
    THEN P(g.dir \o SubSeq(s.dir, Len(pat.dir) + 1, Len(s.dir)), s.stem, s.ext)
    ELSE g

\* for pat, globs := range paths, the keys visited in the order order
RECURSIVE WildcardMatch(_, _, _, _, _, _)
WildcardMatch(d, kind, baseDir, paths, s, order) ==
    IF order = <<>> THEN NoPath
    ELSE LET pat == Head(order)
             hit == IF HasKey(paths, pat) /\ PatternMatches(pat, s)
                    THEN FirstProbed(d, kind, baseDir,
                            [i \in 1..Len(paths[pat]) |-> ReplaceStar(paths[pat][i], pat, s)])
                    ELSE NoPath
         IN  IF hit # NoPath THEN hit
             ELSE WildcardMatch(d, kind, baseDir, paths, s, Tail(order))

\* The body resolveAlias and resolveWithPaths share: the direct key, then the
\* wildcard keys.
AliasLookup(d, kind, baseDir, paths, s, order) ==
    LET key == P(s.dir, s.stem \o s.ext, "")
        direct == IF HasKey(paths, key)
                  THEN FirstProbed(d, kind, baseDir, paths[key])
                  ELSE NoPath
    IN  IF DOMAIN paths = {} THEN NoPath
        ELSE IF direct # NoPath THEN direct
        ELSE WildcardMatch(d, kind, baseDir, paths, s, order)

\* func (r *Resolver) resolveAlias(spec string) (string, bool)
resolveAlias(d, baseDir, paths, s, order) == AliasLookup(d, "alias", baseDir, paths, s, order)

\* func resolveWithPaths(baseDir, paths, spec) string
resolveWithPaths(d, baseDir, paths, s, order) == AliasLookup(d, "base", baseDir, paths, s, order)

\* func loadCompilerAt(dir string), and the loading in NewResolver
loadCompilerAt(d, dir) ==
    LET f == IF Readable(d, P(dir, "tsconfig.base", ".json")) THEN P(dir, "tsconfig.base", ".json")
             ELSE IF Readable(d, P(dir, "tsconfig", ".json")) THEN P(dir, "tsconfig", ".json")
             ELSE NoPath
    IN  IF f = NoPath THEN [ok |-> FALSE, baseDir |-> dir, paths |-> EmptyMap]
        ELSE [ok |-> TRUE, baseDir |-> dir \o d.content[f].baseUrl, paths |-> d.content[f].paths]

\* func (r *Resolver) resolveWithNearest(fromFile, spec string) (string, bool)
RECURSIVE resolveWithNearest(_, _, _, _, _)
resolveWithNearest(d, root, dir, s, order) ==
    LET c == loadCompilerAt(d, dir)
        viaPaths == IF c.ok THEN resolveWithPaths(d, c.baseDir, c.paths, s, order) ELSE NoPath
        viaBase == IF c.ok THEN resolveFromBaseDir(d, c.baseDir, P(s.dir, s.stem, s.ext))
                   ELSE NoPath
    IN  IF viaPaths # NoPath THEN viaPaths
        ELSE IF viaBase # NoPath THEN viaBase
        ELSE IF dir = root \/ dir = <<>> THEN NoPath
        ELSE resolveWithNearest(d, root, SubSeq(dir, 1, Len(dir) - 1), s, order)

\* NewResolver(root).Resolve(fromFile, spec), the range of resolveAlias going
\* in the order o1 and that of resolveWithPaths in the order o2
ResolverResolve(d, root, fromFile, s, o1, o2) ==
    LET r == loadCompilerAt(d, root)
        alias == resolveAlias(d, r.baseDir, r.paths, s, o1)
        nearest == resolveWithNearest(d, root, Dir(fromFile), s, o2)
        base == resolveFromBaseDir(d, r.baseDir, P(s.dir, s.stem, s.ext))
    IN  IF s.prefix \in {"./", "../", "/"} THEN resolveFile(d, fromFile, s)
        ELSE IF alias # NoPath THEN Resolved(alias)
        ELSE IF nearest # NoPath THEN Resolved(nearest)
        ELSE IF base # NoPath THEN Resolved(base)
        ELSE [to |-> "pkg:" \o SpecStr(s), path |-> NoPath, err |-> FALSE]

AliasInit ==
    /\ disk \in AliasDisks
    /\ last = NoCall
    /\ graph = New
    /\ touched = {}
    /\ ctxDone = FALSE
    /\ ret = NotReturned
    /\ cmd = "running"
    /\ graphDoc = NoDoc
    /\ ScanIdle
    /\ BuildIdle
    /\ WatchIdle
    /\ UiIdle

\* to, err := r.Resolve(from, spec); first keeps what the first call for this
\* specifier returned
CallResolverResolve ==
    \E s \in {sbutton, sreact, sutil}, o1 \in Orders(Patterns), o2 \in Orders(Patterns) :
        LET res == ResolverResolve(disk, Root, mainTsx, s, o1, o2)
        IN  /\ last' = [op |-> "Resolver.Resolve", spec |-> s, res |-> res,
                        first |-> IF last.op = "Resolver.Resolve" /\ last.spec = s
                                  THEN last.first ELSE res]
            /\ UNCHANGED <<graph, touched, disk, ctxDone, ret, cmd, graphDoc, scanVars,
                           buildVars, watchVars>>

SpecAlias == AliasInit /\ [][CallResolverResolve]_vars

\* C39: on one tree and one tsconfig every call of Resolver.Resolve for a
\* specifier returns what the first call for it returned.
C39_ResolveDeterministic ==
    last.op = "Resolver.Resolve" => last.res = last.first

====
